---- MODULE Spec2Model ----
(***************************************************************************)
(* Decision-tree workbench: the tree store, the backward-induction         *)
(* evaluator and the step / auto-replay controller of the App component.   *)
(*                                                                         *)
(* Representation.                                                         *)
(*  - A TreeNode is a record; its children are a sequence of TreeNodes.    *)
(*  - An optional field (value?, probability?, calculatedValue?,           *)
(*    isOptimal?) holds <<>> for undefined and <<v>> for the value v.      *)
(*  - Money is an integer; a probability is held in tenths (0.6 is 6), so  *)
(*    a product value * probability is (v * p) \div 10.  The number NaN    *)
(*    (what parseFloat makes of an emptied input) and the JSON value null  *)
(*    (what JSON.stringify makes of NaN) are two reserved codes outside    *)
(*    the range of money.                                                  *)
(*  - A React render sits between any two handler calls: a handler always  *)
(*    reads the state the previous handler (or replay continuation) left.  *)
(*    The state updates of one handler are applied together, in order.     *)
(***************************************************************************)
EXTENDS Integers, Sequences, FiniteSets, TLC

VARIABLES root, calculationMode, logs, abortControllerRef, replays, nextId, nEdits, lastOp,
          apiKey, analysisRequestId, isAnalyzing, aiAnalysis, showAiSettings,
          analyses, alerts

\* The cells of the AI panel: the key typed in, the number of the latest
\* request, the three display cells, the analyzeTree calls that have not
\* returned yet, and the alerts shown so far.
aiVars == <<apiKey, analysisRequestId, isAnalyzing, aiAnalysis, showAiSettings,
            analyses, alerts>>

vars == <<root, calculationMode, logs, abortControllerRef, replays, nextId, nEdits, lastOp,
          aiVars>>

(* ------------------------------ bounds -------------------------------- *)

\* Number of update / add / delete requests in one behaviour.
MaxEdits == 1

\* Number of handleAnalyze calls that get as far as analyzeTree.
MaxAnalyses == 2

\* Number of handleSolve(false) invocations that may be suspended at once.
MaxReplays == 2

(* ------------------------- optional fields ---------------------------- *)

Undefined == <<>>

Some(v) == <<v>>

\* x !== undefined
IsDefined(x) == x # <<>>

(* ------------------------------ numbers ------------------------------- *)

\* parseFloat('')
NaN == 999999

\* JSON.parse('null')
Null == 999998

\* ToNumber: null coerces to 0 in arithmetic
ToNumber(x) == IF x = Null THEN 0 ELSE x

\* a + b
Plus(a, b) == IF a = NaN \/ b = NaN THEN NaN ELSE ToNumber(a) + ToNumber(b)

\* value * probability, the probability in tenths
Times(v, p) == IF v = NaN \/ p = NaN THEN NaN ELSE (ToNumber(v) * ToNumber(p)) \div 10

\* x ?? 0: undefined and null give 0, NaN stays
OrZero(x) == IF x = <<>> \/ x = <<Null>> THEN 0 ELSE x[1]

\* x || 0: undefined, null, NaN and 0 give 0
OrZeroIfFalsy(x) == IF x = <<>> \/ x = <<Null>> \/ x = <<NaN>> THEN 0 ELSE x[1]

\* What JSON.parse(JSON.stringify(x)) makes of a numeric field: NaN comes
\* back as null, an undefined field is dropped and reads as undefined.
JsonNumber(x) == IF x = <<NaN>> THEN <<Null>> ELSE x

(* ------------------------------ types --------------------------------- *)

DECISION == "DECISION"

CHANCE == "CHANCE"

TERMINAL == "TERMINAL"

NodeType == {DECISION, CHANCE, TERMINAL}

\* const rootId = 'root'
RootId == 0

\* no AbortController stored
NoController == 0

TreeNode(id, type, label, value, probability, children) ==
  [id |-> id, type |-> type, label |-> label, value |-> value,
   probability |-> probability, children |-> children,
   calculatedValue |-> Undefined, isOptimal |-> Undefined]

(* ---------------------------- tree store ------------------------------ *)

\* The production-capacity case: a decision with three chance children, each
\* with a 60% / 40% pair of terminal outcomes.  generateId() gave ids 1..9.
createInitialTree ==
  LET t(id, label, v, p) == TreeNode(id, TERMINAL, label, Some(v), Some(p), <<>>)
      c(id, label, kids) == TreeNode(id, CHANCE, label, Some(0), Undefined, kids)
  IN TreeNode(RootId, DECISION, "capacity", Some(0), Undefined,
       << c(3, "new plant", << t(1, "high", 2500, 6), t(2, "low", -500, 4) >>),
          c(6, "extend line", << t(4, "high", 1200, 6), t(5, "low", 300, 4) >>),
          c(9, "outsource", << t(7, "high", 800, 6), t(8, "low", 500, 4) >>) >>)

\* children.map(F)
Map(F(_), s) == [i \in 1..Len(s) |-> F(s[i])] \o <<>>

RECURSIVE SeqConcat(_)
\* [...a, ...b, ...] for a sequence of sequences
SeqConcat(ss) == IF ss = <<>> THEN <<>> ELSE Head(ss) \o SeqConcat(Tail(ss))

RECURSIVE flattenTreePreOrder(_)
\* A traversal that lists the node before its children.
flattenTreePreOrder(node) ==
  <<node>> \o SeqConcat(Map(flattenTreePreOrder, node.children))

RECURSIVE flattenTreePostOrder(_)
flattenTreePostOrder(node) ==
  SeqConcat(Map(flattenTreePostOrder, node.children))
    \o <<node>>

RECURSIVE findNode(_, _)
RECURSIVE FindInChildren(_, _)
\* for (const child of root.children) { found = findNode(child, id); if (found) return found }
FindInChildren(children, id) ==
  IF children = <<>> THEN <<>>
  ELSE LET found == findNode(Head(children), id)
       IN IF found # <<>> THEN found ELSE FindInChildren(Tail(children), id)

\* null is <<>>, a found node n is <<n>>
findNode(node, id) == IF node.id = id THEN <<node>> ELSE FindInChildren(node.children, id)

\* The node a reference into the tree points at: ids are unique in every tree
\* the controller holds, so a node is named by its id.
NodeById(tree, id) == findNode(tree, id)[1]

\* { ...node, ...updates } for the fields a caller may pass.
Merge(node, updates) ==
  [f \in DOMAIN node |-> IF f \in DOMAIN updates THEN updates[f] ELSE node[f]]

RECURSIVE updateNodeInTreeForgetful(_, _, _)
\* An update that also drops what was computed for the node it changes.
updateNodeInTreeForgetful(node, id, updates) ==
  IF node.id = id
  THEN [Merge(node, updates) EXCEPT !.calculatedValue = Undefined]
  ELSE [node EXCEPT !.children =
          LET F(c) == updateNodeInTreeForgetful(c, id, updates) IN Map(F, node.children)]

RECURSIVE updateNodeInTree(_, _, _)
updateNodeInTree(node, id, updates) ==
  IF node.id = id
  THEN Merge(node, updates)
  ELSE [node EXCEPT !.children =
          LET F(c) == updateNodeInTree(c, id, updates) IN Map(F, node.children)]

RECURSIVE addNodeToTreeAnyLeaf(_, _, _, _)
\* An insertion that also adopts the new node at every childless node.
addNodeToTreeAnyLeaf(node, parentId, type, newId) ==
  LET newNode == TreeNode(newId, type,
                          IF type = TERMINAL THEN "result"
                          ELSE IF type = CHANCE THEN "event" ELSE "decision",
                          Some(0), Some(5), <<>>)
  IN IF node.id = parentId \/ Len(node.children) = 0
     THEN [node EXCEPT !.children = Append(node.children, newNode)]
     ELSE [node EXCEPT !.children =
             LET F(c) == addNodeToTreeAnyLeaf(c, parentId, type, newId)
             IN Map(F, node.children)]

RECURSIVE addNodeToTreeInFront(_, _, _, _)
\* An insertion that puts the new node before the existing children.
addNodeToTreeInFront(node, parentId, type, newId) ==
  LET newNode == TreeNode(newId, type,
                          IF type = TERMINAL THEN "result"
                          ELSE IF type = CHANCE THEN "event" ELSE "decision",
                          Some(0), Some(5), <<>>)
  IN IF node.id = parentId
     THEN [node EXCEPT !.children = <<newNode>> \o node.children]
     ELSE [node EXCEPT !.children =
             LET F(c) == addNodeToTreeInFront(c, parentId, type, newId)
             IN Map(F, node.children)]

RECURSIVE addNodeToTree(_, _, _, _)
\* newId is the id generateId() returned for the new node.
addNodeToTree(node, parentId, type, newId) ==
  LET newNode == TreeNode(newId, type,
                          IF type = TERMINAL THEN "result"
                          ELSE IF type = CHANCE THEN "event" ELSE "decision",
                          Some(0), Some(5), <<>>)
  IN IF node.id = parentId
     THEN [node EXCEPT !.children = Append(node.children, newNode)]
     ELSE [node EXCEPT !.children =
             LET F(c) == addNodeToTree(c, parentId, type, newId) IN Map(F, node.children)]

RECURSIVE deleteNodeFromTreeWithSelf(_, _)
\* A deletion that also empties the node it is given when that node matches.
deleteNodeFromTreeWithSelf(node, id) ==
  LET kept == IF node.id = id THEN <<>>
              ELSE SelectSeq(node.children, LAMBDA c : c.id # id)
  IN [node EXCEPT !.children =
        LET F(c) == deleteNodeFromTreeWithSelf(c, id) IN Map(F, kept)]

RECURSIVE deleteNodeFromTreeFirstLevel(_, _)
\* A deletion that stops at the first level where a child matches.
deleteNodeFromTreeFirstLevel(node, id) ==
  LET kept == SelectSeq(node.children, LAMBDA c : c.id # id)
  IN IF Len(kept) < Len(node.children)
     THEN [node EXCEPT !.children = kept]
     ELSE [node EXCEPT !.children =
             LET F(c) == deleteNodeFromTreeFirstLevel(c, id) IN Map(F, kept)]

RECURSIVE deleteNodeFromTree(_, _)
deleteNodeFromTree(node, id) ==
  LET kept == SelectSeq(node.children, LAMBDA c : c.id # id)
  IN [node EXCEPT !.children =
        LET F(c) == deleteNodeFromTree(c, id) IN Map(F, kept)]

(* ------------------------- evaluation engine -------------------------- *)

RECURSIVE SeqMax(_)
\* Math.max(...xs) for a non-empty list: NaN when an argument is NaN
SeqMax(xs) ==
  IF Len(xs) = 1 THEN xs[1]
  ELSE LET m == SeqMax(Tail(xs))
       IN IF xs[1] = NaN \/ m = NaN THEN NaN
          ELSE IF xs[1] >= m THEN xs[1] ELSE m

RECURSIVE SeqSum(_)
\* xs.reduce((sum, x) => sum + x, 0)
SeqSum(xs) == IF xs = <<>> THEN 0 ELSE Plus(SeqSum(SubSeq(xs, 1, Len(xs) - 1)), xs[Len(xs)])

\* An evaluation that leaves out the children that have no calculatedValue.
calculateNodeEMVOfEvaluated(node) ==
  LET done == SelectSeq(node.children, LAMBDA c : IsDefined(c.calculatedValue))
  IN IF node.type = TERMINAL THEN OrZeroIfFalsy(node.value)
     ELSE IF Len(done) = 0 THEN 0
     ELSE IF node.type = DECISION
          THEN SeqMax(LET F(c) == OrZero(c.calculatedValue) IN Map(F, done))
     ELSE SeqSum(LET F(c) == Times(OrZero(c.calculatedValue), OrZero(c.probability))
                 IN Map(F, done))

calculateNodeEMV(node) ==
  IF node.type = TERMINAL THEN OrZeroIfFalsy(node.value)
  ELSE IF Len(node.children) = 0 THEN 0
  ELSE IF node.type = DECISION
       THEN SeqMax(LET F(c) == OrZero(c.calculatedValue) IN Map(F, node.children))
  ELSE SeqSum(LET F(c) == Times(OrZero(c.calculatedValue), OrZero(c.probability))
              IN Map(F, node.children))

\* Math.abs(a - b) < 0.0001: money is held in whole units, so a difference
\* below the tolerance is a difference of 0; a comparison with NaN is false.
WithinTolerance(a, b) == a # NaN /\ b # NaN /\ ToNumber(a) = ToNumber(b)

\* A completion that publishes the tree without marking it.
markNothing(node) == node

RECURSIVE markOptimalPathFirstMaximum(_)
\* A marking that flags the first child that attains the maximum and no other.
markOptimalPathFirstMaximum(node) ==
  IF node.type = TERMINAL \/ Len(node.children) = 0 THEN node
  ELSE LET kids == Map(markOptimalPathFirstMaximum, node.children)
           Attains(i) == WithinTolerance(OrZero(kids[i].calculatedValue),
                                         node.calculatedValue[1])
       IN IF node.type = DECISION /\ IsDefined(node.calculatedValue)
          THEN [node EXCEPT !.children =
                  [i \in 1..Len(kids) |->
                     [kids[i] EXCEPT !.isOptimal =
                        Some(Attains(i) /\ \A h \in 1..(i - 1) : ~Attains(h))]] \o <<>>]
          ELSE [node EXCEPT !.children = kids]

RECURSIVE markOptimalPath(_)
markOptimalPath(node) ==
  IF node.type = TERMINAL \/ Len(node.children) = 0 THEN node
  ELSE LET kids == Map(markOptimalPath, node.children)
       IN IF node.type = DECISION /\ IsDefined(node.calculatedValue)
          THEN [node EXCEPT !.children =
                  LET F(c) == [c EXCEPT !.isOptimal =
                                    Some(WithinTolerance(OrZero(c.calculatedValue),
                                                         node.calculatedValue[1]))]
                  IN Map(F, kids)]
          ELSE [node EXCEPT !.children = kids]

(* --------------------------- solve controller ------------------------- *)

\* A CalculationLog entry.  `node` is the id of the node the entry was written
\* for (the entry's own id and timestamp are left out).
LogEntry(node, result) ==
  [node |-> node.id, nodeLabel |-> node.label, nodeType |-> node.type, result |-> result]

\* Newest entries first.
prependLogs(prev, newLogs) == newLogs \o prev

\* The queued updaters setLogs(prev => [...prev, newLog]) applied in order.
appendLogs(prev, newLogs) == prev \o newLogs

\* A clearing that stops at the node it is given.
clearValuesShallow(node) ==
  [node EXCEPT !.calculatedValue = Undefined, !.isOptimal = Undefined]

RECURSIVE clearValues(_)
\* clearValues of resetCalculation
clearValues(node) ==
  [node EXCEPT !.calculatedValue = Undefined, !.isOptimal = Undefined,
               !.children = Map(clearValues, node.children)]

RECURSIVE clearValuesSolve(_)
\* clearValues of handleSolve's auto branch: Terminal nodes are skipped
clearValuesSolve(node) ==
  LET kids == Map(clearValuesSolve, node.children)
  IN IF node.type # TERMINAL
     THEN [node EXCEPT !.calculatedValue = Undefined, !.isOptimal = Undefined,
                       !.children = kids]
     ELSE [node EXCEPT !.children = kids]

RECURSIVE JsonClone(_)
\* JSON.parse(JSON.stringify(node)): a fresh tree with every defined field
\* copied; a field holding undefined is dropped, and reads as undefined again;
\* a number field holding NaN comes back holding null.
JsonClone(node) ==
  [id |-> node.id, type |-> node.type, label |-> node.label,
   value |-> JsonNumber(node.value),
   probability |-> JsonNumber(node.probability),
   children |-> Map(JsonClone, node.children),
   calculatedValue |-> JsonNumber(node.calculatedValue), isOptimal |-> node.isOptimal]

RECURSIVE SetCalculatedValue(_, _, _)
\* node.calculatedValue = v on the node of the working tree that carries `id`
SetCalculatedValue(node, id, v) ==
  IF node.id = id THEN [node EXCEPT !.calculatedValue = v]
  ELSE [node EXCEPT !.children =
          LET F(c) == SetCalculatedValue(c, id, v) IN Map(F, node.children)]

\* A step that evaluates every node whose children are ready.
ShouldEvaluateEveryReady(allChildrenCalculated, foundNext) == allChildrenCalculated

\* if (allChildrenCalculated && !foundNext)
ShouldEvaluate(allChildrenCalculated, foundNext) == allChildrenCalculated /\ ~foundNext

RECURSIVE stepCalculate(_, _)
RECURSIVE StepChildren(_, _)
\* node.children.map(c => stepCalculate(c)), left to right, threading foundNext
\* and the log entries written on the way.
StepChildren(children, foundNext) ==
  IF children = <<>>
  THEN [children |-> <<>>, foundNext |-> foundNext, log |-> <<>>]
  ELSE LET h == stepCalculate(Head(children), foundNext)
           t == StepChildren(Tail(children), h.foundNext)
       IN [children |-> <<h.node>> \o t.children, foundNext |-> t.foundNext,
           log |-> h.log \o t.log]

\* stepCalculate with the closure variable foundNext made a parameter and a
\* result; log holds the entries passed to setLogs.
stepCalculate(node, foundNext) ==
  IF IsDefined(node.calculatedValue)
  THEN [node |-> node, foundNext |-> foundNext, log |-> <<>>]
  ELSE IF node.type = TERMINAL
  THEN [node |-> [node EXCEPT !.calculatedValue = node.value],
        foundNext |-> foundNext, log |-> <<>>]
  ELSE LET r == StepChildren(node.children, foundNext)
           allChildrenCalculated ==
             \A i \in 1..Len(r.children) : IsDefined(r.children[i].calculatedValue)
           nodeWithChildren == [node EXCEPT !.children = r.children]
           val == calculateNodeEMV(nodeWithChildren)
       IN IF ShouldEvaluate(allChildrenCalculated, r.foundNext)
          THEN [node |-> [nodeWithChildren EXCEPT !.calculatedValue = Some(val)],
                foundNext |-> TRUE,
                log |-> r.log \o <<LogEntry(node, val)>>]
          ELSE [node |-> nodeWithChildren, foundNext |-> r.foundNext, log |-> r.log]

\* The three loops below bind the working tree once per iteration (w), so that
\* an iteration reads the tree the previous iteration left.

RECURSIVE RunLoopNoSkip(_, _, _)
\* The loop without the check that skips a node evaluated earlier.
RunLoopNoSkip(workingRoot, nodesInOrder, i) ==
  IF i > Len(nodesInOrder)
  THEN [workingRoot |-> workingRoot, i |-> i, exhausted |-> TRUE]
  ELSE LET Iteration(w, node) ==
             IF node.type = TERMINAL
             THEN RunLoopNoSkip(SetCalculatedValue(w, node.id, node.value),
                                nodesInOrder, i + 1)
             ELSE [workingRoot |-> w, i |-> i, exhausted |-> FALSE]
       IN CHOOSE out \in {Iteration(w, NodeById(w, nodesInOrder[i])) : w \in {workingRoot}} :
            TRUE

RECURSIVE RunLoopNoTerminalCase(_, _, _)
\* The loop without the Terminal branch: a Terminal node is paced, evaluated
\* and logged like any other.
RunLoopNoTerminalCase(workingRoot, nodesInOrder, i) ==
  IF i > Len(nodesInOrder)
  THEN [workingRoot |-> workingRoot, i |-> i, exhausted |-> TRUE]
  ELSE LET Iteration(w, node) ==
             IF IsDefined(node.calculatedValue)
             THEN RunLoopNoTerminalCase(w, nodesInOrder, i + 1)
             ELSE [workingRoot |-> w, i |-> i, exhausted |-> FALSE]
       IN CHOOSE out \in {Iteration(w, NodeById(w, nodesInOrder[i])) : w \in {workingRoot}} :
            TRUE

RECURSIVE RunLoop(_, _, _)
\* The synchronous part of the auto loop from position i of nodesInOrder: a
\* Terminal node takes its value, an evaluated node is skipped; the loop stops
\* at the first node that needs the pacing delay, or past the end.
RunLoop(workingRoot, nodesInOrder, i) ==
  IF i > Len(nodesInOrder)
  THEN [workingRoot |-> workingRoot, i |-> i, exhausted |-> TRUE]
  ELSE LET Iteration(w, node) ==
             IF node.type = TERMINAL
             THEN RunLoop(SetCalculatedValue(w, node.id, node.value),
                          nodesInOrder, i + 1)
             ELSE IF IsDefined(node.calculatedValue)
             THEN RunLoop(w, nodesInOrder, i + 1)
             ELSE [workingRoot |-> w, i |-> i, exhausted |-> FALSE]
       IN CHOOSE out \in {Iteration(w, NodeById(w, nodesInOrder[i])) : w \in {workingRoot}} :
            TRUE

(* ------------------------------- state -------------------------------- *)

\* root, calculationMode, logs: the useState cells of App.
\* abortControllerRef: the controller the ref holds, or NoController.
\* replays: the handleSolve(false) invocations suspended at their pacing delay,
\*   in the order their timers were armed.  Each holds its controller and the
\*   controller's aborted flag, its workingRoot, nodesInOrder (as node ids), the
\*   position i of the node it waits to evaluate, and the calculationMode its
\*   closure captured (an aborted one: see Abort).  All delays are 2000 ms,
\*   so the timers fire in the order they were armed: only the head of the
\*   queue can run on.
\* nextId: the next id generateId() hands to addNodeToTree.
\* nEdits: the number of update / add / delete requests made so far.
\* lastOp: the handler or continuation that ran last and the calculationMode
\*   it saw (history).

\* useState(null), useState(false), useState(''), useState(false), useRef(0)
AiInit ==
  /\ apiKey = ""
  /\ analysisRequestId = 0
  /\ isAnalyzing = FALSE
  /\ aiAnalysis = Undefined
  /\ showAiSettings = FALSE
  /\ analyses = {}
  /\ alerts = <<>>

Op(name, from) == [op |-> name, from |-> from]

Controllers == 1..MaxReplays

Init ==
  /\ root = createInitialTree
  /\ calculationMode = "edit"
  /\ logs = <<>>
  /\ abortControllerRef = NoController
  /\ replays = <<>>
  /\ nextId = 10
  /\ nEdits = 0
  /\ lastOp = Op("init", "edit")
  /\ AiInit

\* A handler that drops the stored controller without aborting it.
AbortNothing(rs, ref) == rs

\* abortControllerRef.current.abort(): the replay that controller belongs to
\* sees signal.aborted from now on.  Every path of an invocation that finds
\* its signal aborted returns at once, so nothing it holds is read again: the
\* record of an aborted invocation keeps its controller and the flag only.
Abort(rs, ref) ==
  [k \in 1..Len(rs) |->
     IF rs[k].controller = ref
     THEN [controller |-> ref, aborted |-> TRUE]
     ELSE rs[k]] \o <<>>

\* A continuation that returns at its abort check whatever the signal says.
AbortedAlways(r) == TRUE

\* controller.signal.aborted, as a suspended invocation reads it
Aborted(r) == r.aborted

(* ------------------------------ handlers ------------------------------ *)

resetCalculation ==
  /\ replays' = Abort(replays, abortControllerRef)
  /\ abortControllerRef' = NoController
  /\ calculationMode' = "edit"
  /\ logs' = <<>>
  /\ root' = clearValues(root)
  /\ lastOp' = Op("reset", calculationMode)
  /\ UNCHANGED <<nextId, nEdits, aiVars>>

\* A handler that resets only a finished calculation.
NeedsResetWhenSolved(mode) == mode = "auto"

\* if (calculationMode !== 'edit') resetCalculation()
NeedsReset(mode) == mode # "edit"

\* The tree the updater of a mutation handler's setRoot(prev => ...) receives:
\* the tree resetCalculation() cleared when the mode is not 'edit'.
MutationBase == IF NeedsReset(calculationMode) THEN clearValues(root) ELSE root

\* A mutation handler: resetCalculation() first when the mode is not 'edit',
\* then setRoot to newRoot, the mutation of MutationBase.
Mutation(newRoot) ==
  /\ nEdits < MaxEdits
  /\ nEdits' = nEdits + 1
  /\ root' = newRoot
  /\ IF NeedsReset(calculationMode)
     THEN /\ replays' = Abort(replays, abortControllerRef)
          /\ abortControllerRef' = NoController
          /\ calculationMode' = "edit"
          /\ logs' = <<>>
     ELSE UNCHANGED <<replays, abortControllerRef, calculationMode, logs>>
  /\ UNCHANGED aiVars

\* The nodes the user selects, and the updates the property form sends for the
\* selected node.
SelectableIds == {RootId, 1, 9}

UpdateLabels == {"renamed"}

UpdateValues == {1300, NaN}

UpdateProbabilities == {10}

UpdatesFor(node) ==
  {[label |-> l] : l \in UpdateLabels}
    \cup (IF node.type = TERMINAL
          THEN {[value |-> Some(v)] : v \in UpdateValues} ELSE {})
    \cup (IF node.type # DECISION /\ node.id # RootId
          THEN {[probability |-> Some(p)] : p \in UpdateProbabilities} ELSE {})

\* The selected node: selectedNodeId names a node of the current tree.
Selected == {findNode(root, id)[1] : id \in {i \in SelectableIds : findNode(root, i) # <<>>}}

handleUpdateNode(id, updates) ==
  /\ Mutation(updateNodeInTree(MutationBase, id, updates))
  /\ lastOp' = Op("update", calculationMode)
  /\ UNCHANGED nextId

handleAddNode(parentId, type) ==
  /\ Mutation(addNodeToTree(MutationBase, parentId, type, nextId))
  /\ nextId' = nextId + 1
  /\ lastOp' = Op("add", calculationMode)

handleDeleteNode(id) ==
  /\ Mutation(deleteNodeFromTree(MutationBase, id))
  /\ lastOp' = Op("delete", calculationMode)
  /\ UNCHANGED nextId

\* handleSolve(true)
handleSolveStep ==
  LET r == stepCalculate(root, FALSE)
  IN /\ replays' = Abort(replays, abortControllerRef)
     /\ abortControllerRef' = NoController
     /\ IF r.foundNext
        THEN /\ root' = r.node
             /\ calculationMode' = "step"
        ELSE /\ root' = markOptimalPath(r.node)
             /\ calculationMode' = "auto"
     /\ logs' = appendLogs(logs, r.log)
     /\ lastOp' = Op("step", calculationMode)
     /\ UNCHANGED <<nextId, nEdits, aiVars>>

\* handleSolve(false) up to its first pacing delay, or to its end when no node
\* needs one.  c is the new AbortController.
handleSolveAuto(c) ==
  LET restart == calculationMode \in {"edit", "auto"}
      cloned == JsonClone(root)
      workingRoot == IF restart THEN clearValuesSolve(cloned) ELSE cloned
      order == flattenTreePostOrder(workingRoot)
      nodesInOrder == LET F(n) == n.id IN Map(F, order)
      run == RunLoop(workingRoot, nodesInOrder, 1)
      cancelled == Abort(replays, abortControllerRef)
  IN /\ Len(replays) < MaxReplays
     /\ c = CHOOSE k \in Controllers : \A j \in 1..Len(replays) : replays[j].controller # k
     /\ logs' = IF restart THEN <<>> ELSE logs
     /\ IF run.exhausted
        THEN /\ root' = markOptimalPath(run.workingRoot)
             /\ calculationMode' = "auto"
             /\ abortControllerRef' = NoController
             /\ replays' = cancelled
        ELSE /\ root' = IF restart THEN JsonClone(workingRoot) ELSE root
             /\ calculationMode' = "step"
             /\ abortControllerRef' = c
             /\ replays' = Append(cancelled,
                             [controller |-> c, aborted |-> FALSE,
                              workingRoot |-> run.workingRoot,
                              nodesInOrder |-> nodesInOrder, i |-> run.i,
                              calculationMode |-> calculationMode])
     /\ lastOp' = Op("auto", calculationMode)
     /\ UNCHANGED <<nextId, nEdits, aiVars>>

\* A finally block that clears the stored controller whoever owns it.
ClearAnyRef(ref, controller) == NoController

\* finally: the stored controller is cleared by the invocation that created
\* it, and by no other.
ClearOwnRef(ref, controller) == IF ref = controller THEN NoController ELSE ref

\* The oldest pacing delay elapses and its invocation runs on: to its return
\* when it finds its controller aborted, else through one evaluation to its
\* next delay or to its end.  r is the invocation, node the node it waited to
\* evaluate, run the loop from the node after it.
Resume ==
  /\ replays # <<>>
  /\ \E r \in {Head(replays)} :
       LET clearRef == ClearOwnRef(abortControllerRef, r.controller)
       IN IF Aborted(r)
          THEN /\ replays' = Tail(replays)
               /\ abortControllerRef' = clearRef
               /\ lastOp' = Op("cancelled", calculationMode)
               /\ UNCHANGED <<root, calculationMode, logs>>
          ELSE \E node \in {NodeById(r.workingRoot, r.nodesInOrder[r.i])} :
               \E val \in {calculateNodeEMV(node)} :
               \E evaluated \in {SetCalculatedValue(r.workingRoot, node.id, Some(val))} :
               \E run \in {RunLoop(evaluated, r.nodesInOrder, r.i + 1)} :
                 /\ logs' = appendLogs(logs, <<LogEntry(node, val)>>)
                 /\ lastOp' = Op("resume", r.calculationMode)
                 /\ IF run.exhausted
                    THEN /\ root' = markOptimalPath(run.workingRoot)
                         /\ calculationMode' = "auto"
                         /\ abortControllerRef' = clearRef
                         /\ replays' = Tail(replays)
                    ELSE /\ root' = JsonClone(evaluated)
                         /\ replays' = Append(Tail(replays),
                                         [r EXCEPT !.workingRoot = run.workingRoot,
                                                   !.i = run.i])
                         /\ UNCHANGED <<calculationMode, abortControllerRef>>
  /\ UNCHANGED <<nextId, nEdits, aiVars>>

Next ==
  \/ resetCalculation
  \/ handleSolveStep
  \/ \E c \in Controllers : handleSolveAuto(c)
  \/ Resume
  \/ \E n \in Selected : \E u \in UpdatesFor(n) : handleUpdateNode(n.id, u)
  \/ \E n \in Selected : \E type \in NodeType :
       n.type # TERMINAL /\ handleAddNode(n.id, type)
  \/ \E n \in Selected : n.id # RootId /\ handleDeleteNode(n.id)

Spec == Init /\ [][Next]_vars

\* Every armed setTimeout fires: a suspended invocation is eventually resumed.
FairSpec == Spec /\ WF_vars(Resume)

(* ------------------------- ids as they are drawn ------------------------ *)

\* generateId() is Math.random().toString(36).substr(2, 9): nine digits drawn
\* at random, which nothing compares with the ids in use.  Next gives every
\* new node an id no node has had; here the draw is any of a few strings, one
\* of them the id of a node of the initial tree.
GeneratedIds == {5, 10}

handleAddNodeDrawing(parentId, type, newId) ==
  /\ Mutation(addNodeToTree(MutationBase, parentId, type, newId))
  /\ lastOp' = Op("add", calculationMode)
  /\ UNCHANGED nextId

DrawNext ==
  \/ Next
  \/ \E n \in Selected : \E type \in NodeType : \E newId \in GeneratedIds :
       n.type # TERMINAL /\ handleAddNodeDrawing(n.id, type, newId)

DrawSpec == Init /\ [][DrawNext]_vars

(* ------------------------------ AI panel ------------------------------- *)

\* handleAnalyze and the continuations of its await, with the rest of the App
\* running beside them.  handleAnalyze is taken as the handler it is: the
\* button that calls it is disabled while isAnalyzing or without a key, the
\* function checks the key and nothing else.  An analyzeTree call returns or
\* throws at any later moment, in any order with the others, or never.

\* What is typed into the key field.
ApiKeys == {"", " ", "key"}

\* apiKey.trim() on the keys above
Trim(key) == IF key \in {"", " "} THEN "" ELSE key

\* The text analyzeTree returned for a request (its wording is the service's).
Report(requestId) == [report |-> requestId]

\* No other cell of the App is written by the AI panel.
CoreUnchanged ==
  UNCHANGED <<root, calculationMode, logs, abortControllerRef, replays, nextId, nEdits>>

setApiKey(key) ==
  /\ apiKey # key
  /\ apiKey' = key
  /\ lastOp' = Op("setApiKey", calculationMode)
  /\ CoreUnchanged
  /\ UNCHANGED <<analysisRequestId, isAnalyzing, aiAnalysis, showAiSettings, analyses, alerts>>

\* The gear button, and the button of the empty panel.
setShowAiSettings(show) ==
  /\ showAiSettings # show
  /\ showAiSettings' = show
  /\ lastOp' = Op("setShowAiSettings", calculationMode)
  /\ CoreUnchanged
  /\ UNCHANGED <<apiKey, analysisRequestId, isAnalyzing, aiAnalysis, analyses, alerts>>

\* The close button of a report: setAiAnalysis(null).
closeAnalysis ==
  /\ IsDefined(aiAnalysis) /\ ~showAiSettings
  /\ aiAnalysis' = Undefined
  /\ lastOp' = Op("closeAnalysis", calculationMode)
  /\ CoreUnchanged
  /\ UNCHANGED <<apiKey, analysisRequestId, isAnalyzing, showAiSettings, analyses, alerts>>

\* A continuation that does not compare its request with the latest one.
IsActiveAlways(requestId, current) == TRUE

\* requestId === analysisRequestId.current
IsActive(requestId, current) == requestId = current

\* handleAnalyze up to its await.
handleAnalyze ==
  /\ IF Trim(apiKey) = ""
     THEN /\ showAiSettings' = TRUE
          /\ UNCHANGED <<analysisRequestId, isAnalyzing, aiAnalysis, analyses>>
     ELSE /\ analysisRequestId < MaxAnalyses
          /\ \E requestId \in {analysisRequestId + 1} :
               /\ analysisRequestId' = requestId
               /\ analyses' = analyses \cup {requestId}
          /\ isAnalyzing' = TRUE
          /\ aiAnalysis' = Undefined
          /\ showAiSettings' = FALSE
  /\ lastOp' = Op("analyze", calculationMode)
  /\ CoreUnchanged
  /\ UNCHANGED <<apiKey, alerts>>

\* analyzeTree returns for the request: the try body after the await, then
\* finally.
analysisReturns(requestId) ==
  /\ requestId \in analyses
  /\ analyses' = analyses \ {requestId}
  /\ IF IsActive(requestId, analysisRequestId)
     THEN /\ aiAnalysis' = Some(Report(requestId))
          /\ isAnalyzing' = FALSE
     ELSE UNCHANGED <<aiAnalysis, isAnalyzing>>
  /\ lastOp' = Op("analysis returned", calculationMode)
  /\ CoreUnchanged
  /\ UNCHANGED <<apiKey, analysisRequestId, showAiSettings, alerts>>

\* A catch block that also resets the calculation.
analysisFailsResetting(requestId) ==
  /\ requestId \in analyses
  /\ analyses' = analyses \ {requestId}
  /\ IF IsActive(requestId, analysisRequestId)
     THEN /\ alerts' = Append(alerts, requestId)
          /\ showAiSettings' = TRUE
          /\ isAnalyzing' = FALSE
     ELSE UNCHANGED <<alerts, showAiSettings, isAnalyzing>>
  /\ lastOp' = Op("analysis failed", calculationMode)
  /\ replays' = Abort(replays, abortControllerRef)
  /\ abortControllerRef' = NoController
  /\ UNCHANGED <<root, calculationMode, logs, nextId, nEdits>>
  /\ UNCHANGED <<apiKey, analysisRequestId, aiAnalysis>>

\* analyzeTree throws for the request: catch, then finally.
analysisFails(requestId) ==
  /\ requestId \in analyses
  /\ analyses' = analyses \ {requestId}
  /\ IF IsActive(requestId, analysisRequestId)
     THEN /\ alerts' = Append(alerts, requestId)
          /\ showAiSettings' = TRUE
          /\ isAnalyzing' = FALSE
     ELSE UNCHANGED <<alerts, showAiSettings, isAnalyzing>>
  /\ lastOp' = Op("analysis failed", calculationMode)
  /\ CoreUnchanged
  /\ UNCHANGED <<apiKey, analysisRequestId, aiAnalysis>>

\* The tree is left as constructed here: the panel reads root, never writes it.
AiNext ==
  \/ resetCalculation
  \/ handleSolveStep
  \/ \E c \in Controllers : handleSolveAuto(c)
  \/ Resume
  \/ \E key \in ApiKeys : setApiKey(key)
  \/ \E show \in BOOLEAN : setShowAiSettings(show)
  \/ closeAnalysis
  \/ handleAnalyze
  \/ \E requestId \in analyses : analysisReturns(requestId)
  \/ \E requestId \in analyses : analysisFails(requestId)

AiSpec == Init /\ [][AiNext]_vars

(* ----------------- the tree utilities on the object heap --------------- *)

\* The same four functions with the objects they read and create made
\* explicit.  A heap is the sequence of the objects created so far; the
\* address of an object is its position; an object is a TreeNode whose
\* children field lists the addresses of its children.  Creating an object
\* ({ ...node }, a literal) appends it; an assignment to a field of an object
\* rewrites the object at its address.  A result is [heap, at]: the heap after
\* the call and the address of the object returned.

\* { ... } : a new object
Alloc(heap, object) == [heap |-> Append(heap, object), at |-> Len(heap) + 1]

RECURSIVE MapAt(_, _, _)
\* ats.map(F), left to right
MapAt(F(_, _), heap, ats) ==
  IF ats = <<>> THEN [heap |-> heap, ats |-> <<>>]
  ELSE LET first == F(heap, Head(ats))
           rest == MapAt(F, first.heap, Tail(ats))
       IN [heap |-> rest.heap, ats |-> <<first.at>> \o rest.ats]

RECURSIVE Load(_, _)
\* The objects of a tree a caller holds, children before their parent.
Load(heap, tree) ==
  LET kids == MapAt(Load, heap, tree.children)
  IN Alloc(kids.heap, [tree EXCEPT !.children = kids.ats])

RECURSIVE Read(_, _)
\* The tree reachable from the object at an address.
Read(heap, at) ==
  [heap[at] EXCEPT !.children = LET F(c) == Read(heap, c) IN Map(F, heap[at].children)]

RECURSIVE updateNodeInTreeAt(_, _, _, _)
updateNodeInTreeAt(heap, at, id, updates) ==
  IF heap[at].id = id
  THEN Alloc(heap, Merge(heap[at], updates))
  ELSE LET F(h, c) == updateNodeInTreeAt(h, c, id, updates)
           kids == MapAt(F, heap, heap[at].children)
       IN Alloc(kids.heap, [heap[at] EXCEPT !.children = kids.ats])

RECURSIVE addNodeToTreeAt(_, _, _, _, _)
\* const newNode = { ... } is created by every call, also where it is not used
addNodeToTreeAt(heap, at, parentId, type, newId) ==
  LET newNode == Alloc(heap, TreeNode(newId, type,
                                      IF type = TERMINAL THEN "result"
                                      ELSE IF type = CHANCE THEN "event" ELSE "decision",
                                      Some(0), Some(5), <<>>))
  IN IF heap[at].id = parentId
     THEN Alloc(newNode.heap,
                [heap[at] EXCEPT !.children = Append(heap[at].children, newNode.at)])
     ELSE LET F(h, c) == addNodeToTreeAt(h, c, parentId, type, newId)
              kids == MapAt(F, newNode.heap, heap[at].children)
          IN Alloc(kids.heap, [heap[at] EXCEPT !.children = kids.ats])

RECURSIVE deleteNodeFromTreeAt(_, _, _)
deleteNodeFromTreeAt(heap, at, id) ==
  LET kept == SelectSeq(heap[at].children, LAMBDA c : heap[c].id # id)
      F(h, c) == deleteNodeFromTreeAt(h, c, id)
      kids == MapAt(F, heap, kept)
  IN Alloc(kids.heap, [heap[at] EXCEPT !.children = kids.ats])

RECURSIVE markOptimalPathInPlaceAt(_, _)
\* A marking that writes to the node it is given: const newRoot = root.
markOptimalPathInPlaceAt(heap, at) ==
  IF heap[at].type = TERMINAL \/ Len(heap[at].children) = 0
  THEN [heap |-> heap, at |-> at]
  ELSE LET kids == MapAt(markOptimalPathInPlaceAt, heap, heap[at].children)
           marked == [kids.heap EXCEPT ![at].children = kids.ats]
           Flag(h, c) ==
             Alloc(h, [h[c] EXCEPT !.isOptimal =
                          Some(WithinTolerance(OrZero(h[c].calculatedValue),
                                               heap[at].calculatedValue[1]))])
           flagged == MapAt(Flag, marked, kids.ats)
       IN IF heap[at].type = DECISION /\ IsDefined(heap[at].calculatedValue)
          THEN [heap |-> [flagged.heap EXCEPT ![at].children = flagged.ats],
                at |-> at]
          ELSE [heap |-> marked, at |-> at]

RECURSIVE markOptimalPathAt(_, _)
\* const newRoot = { ...root }; the assignments to newRoot.children rewrite
\* that new object.
markOptimalPathAt(heap, at) ==
  LET newRoot == Alloc(heap, heap[at])
  IN IF heap[at].type = TERMINAL \/ Len(heap[at].children) = 0
     THEN newRoot
     ELSE LET kids == MapAt(markOptimalPathAt, newRoot.heap, heap[at].children)
              marked == [kids.heap EXCEPT ![newRoot.at].children = kids.ats]
              Flag(h, c) ==
                Alloc(h, [h[c] EXCEPT !.isOptimal =
                             Some(WithinTolerance(OrZero(h[c].calculatedValue),
                                                  heap[at].calculatedValue[1]))])
              flagged == MapAt(Flag, marked, kids.ats)
          IN IF heap[at].type = DECISION /\ IsDefined(heap[at].calculatedValue)
             THEN [heap |-> [flagged.heap EXCEPT ![newRoot.at].children = flagged.ats],
                   at |-> newRoot.at]
             ELSE [heap |-> marked, at |-> newRoot.at]

(* -------------------------------- layout ------------------------------- *)

HORIZONTAL_SPACING == 280

VERTICAL_SPACING == 100

\* y is held in sixteenths of a pixel, which keeps the halving in
\* (firstChildY + lastChildY) / 2 exact for a parent up to four levels above
\* its leaves; x is in pixels.
SubPixels == 16

LayoutNode(data, x, y, children) == [data |-> data, x |-> x, y |-> y, children |-> children]

RECURSIVE calculateLayoutMeanOfEnds(_, _, _)
\* A layout that centres a parent between the slots its subtree starts and
\* ends with.
calculateLayoutMeanOfEnds(node, depth, nextY) ==
  IF Len(node.children) = 0
  THEN [layout |-> LayoutNode(node, depth * HORIZONTAL_SPACING, nextY, <<>>),
        nextY |-> nextY + VERTICAL_SPACING * SubPixels]
  ELSE LET Place(done, child) ==
             LET r == calculateLayoutMeanOfEnds(child, depth + 1, done.nextY)
             IN [layouts |-> Append(done.layouts, r.layout), nextY |-> r.nextY]
           Each[k \in 0..Len(node.children)] ==
             IF k = 0 THEN [layouts |-> <<>>, nextY |-> nextY]
             ELSE Place(Each[k - 1], node.children[k])
           childrenLayouts == Each[Len(node.children)]
           firstChildY == childrenLayouts.layouts[1].y
           lastChildY == childrenLayouts.layouts[Len(childrenLayouts.layouts)].y
       IN [layout |-> LayoutNode(node, depth * HORIZONTAL_SPACING,
                                 (nextY + childrenLayouts.nextY - VERTICAL_SPACING * SubPixels) \div 2,
                                 childrenLayouts.layouts),
           nextY |-> childrenLayouts.nextY]

RECURSIVE calculateLayoutPerDepth(_, _, _)
\* A layout that numbers the leaves of each subtree from the slot its parent
\* started at: nextY is not carried from one child to the next.
calculateLayoutPerDepth(node, depth, nextY) ==
  IF Len(node.children) = 0
  THEN [layout |-> LayoutNode(node, depth * HORIZONTAL_SPACING, nextY, <<>>),
        nextY |-> nextY + VERTICAL_SPACING * SubPixels]
  ELSE LET Place(done, child) ==
             LET r == calculateLayoutPerDepth(child, depth + 1, nextY + Len(done.layouts) * VERTICAL_SPACING * SubPixels)
             IN [layouts |-> Append(done.layouts, r.layout), nextY |-> r.nextY]
           Each[k \in 0..Len(node.children)] ==
             IF k = 0 THEN [layouts |-> <<>>, nextY |-> nextY]
             ELSE Place(Each[k - 1], node.children[k])
           childrenLayouts == Each[Len(node.children)]
           firstChildY == childrenLayouts.layouts[1].y
           lastChildY == childrenLayouts.layouts[Len(childrenLayouts.layouts)].y
       IN [layout |-> LayoutNode(node, depth * HORIZONTAL_SPACING,
                                 (firstChildY + lastChildY) \div 2,
                                 childrenLayouts.layouts),
           nextY |-> childrenLayouts.nextY]

RECURSIVE calculateLayoutTerminalSlots(_, _, _)
\* A layout in which only a Terminal node takes a slot: a Decision or Chance
\* node without children is drawn at the counter and leaves it where it is.
calculateLayoutTerminalSlots(node, depth, nextY) ==
  IF Len(node.children) = 0
  THEN [layout |-> LayoutNode(node, depth * HORIZONTAL_SPACING, nextY, <<>>),
        nextY |-> IF node.type = TERMINAL
                  THEN nextY + VERTICAL_SPACING * SubPixels ELSE nextY]
  ELSE LET Place(done, child) ==
             LET r == calculateLayoutTerminalSlots(child, depth + 1, done.nextY)
             IN [layouts |-> Append(done.layouts, r.layout), nextY |-> r.nextY]
           Each[k \in 0..Len(node.children)] ==
             IF k = 0 THEN [layouts |-> <<>>, nextY |-> nextY]
             ELSE Place(Each[k - 1], node.children[k])
           childrenLayouts == Each[Len(node.children)]
           firstChildY == childrenLayouts.layouts[1].y
           lastChildY == childrenLayouts.layouts[Len(childrenLayouts.layouts)].y
       IN [layout |-> LayoutNode(node, depth * HORIZONTAL_SPACING,
                                 (firstChildY + lastChildY) \div 2,
                                 childrenLayouts.layouts),
           nextY |-> childrenLayouts.nextY]

RECURSIVE calculateLayout(_, _, _)
\* calculateLayout(node, depth) with the counter nextY it reads and advances:
\* the result is the LayoutNode and the counter after the call.  Each[k] is
\* the state of node.children.forEach after k children.
calculateLayout(node, depth, nextY) ==
  IF Len(node.children) = 0
  THEN [layout |-> LayoutNode(node, depth * HORIZONTAL_SPACING, nextY, <<>>),
        nextY |-> nextY + VERTICAL_SPACING * SubPixels]
  ELSE LET Place(done, child) ==
             LET r == calculateLayout(child, depth + 1, done.nextY)
             IN [layouts |-> Append(done.layouts, r.layout), nextY |-> r.nextY]
           Each[k \in 0..Len(node.children)] ==
             IF k = 0 THEN [layouts |-> <<>>, nextY |-> nextY]
             ELSE Place(Each[k - 1], node.children[k])
           childrenLayouts == Each[Len(node.children)]
           firstChildY == childrenLayouts.layouts[1].y
           lastChildY == childrenLayouts.layouts[Len(childrenLayouts.layouts)].y
       IN [layout |-> LayoutNode(node, depth * HORIZONTAL_SPACING,
                                 (firstChildY + lastChildY) \div 2,
                                 childrenLayouts.layouts),
           nextY |-> childrenLayouts.nextY]

\* A layout centred on y = 0: the first slot depends on the number of leaves.
layoutTreeCentred(data) ==
  LET nodes == flattenTreePostOrder(data)
      leaves == SelectSeq(nodes, LAMBDA n : Len(n.children) = 0)
  IN calculateLayout(data, 0, 0 - (Len(leaves) - 1) * VERTICAL_SPACING * (SubPixels \div 2)).layout

\* A layout that starts one slot lower for a tree whose root has been
\* evaluated.
layoutTreeBelowResult(data) ==
  calculateLayout(data, 0, IF IsDefined(data.calculatedValue)
                           THEN VERTICAL_SPACING * SubPixels ELSE 0).layout

\* nextY = 0; return calculateLayout(data, 0)
layoutTree(data) == calculateLayout(data, 0, 0).layout

(* ------------------------ whole evaluation runs ------------------------ *)

RECURSIVE autoToEnd(_, _, _)
\* The auto loop from position i with every pacing delay elapsed and no
\* cancellation: the working tree when the loop ends.
autoToEnd(workingRoot, nodesInOrder, i) ==
  LET run == RunLoop(workingRoot, nodesInOrder, i)
      node == NodeById(run.workingRoot, nodesInOrder[run.i])
      val == calculateNodeEMV(node)
  IN IF run.exhausted THEN run.workingRoot
     ELSE autoToEnd(SetCalculatedValue(run.workingRoot, node.id, Some(val)),
                    nodesInOrder, run.i + 1)

\* The tree handleSolve(false), invoked on tree in calculationMode mode and
\* never cancelled, publishes when it enters Solved.
replayToEnd(tree, mode) ==
  LET cloned == JsonClone(tree)
      workingRoot == IF mode \in {"edit", "auto"} THEN clearValuesSolve(cloned) ELSE cloned
      nodesInOrder == LET F(n) == n.id IN Map(F, flattenTreePostOrder(workingRoot))
  IN markOptimalPath(autoToEnd(workingRoot, nodesInOrder, 1))

RECURSIVE stepToEnd(_)
\* The tree handleSolve(true), invoked on tree again and again, publishes when
\* it enters Solved.
stepToEnd(tree) ==
  LET r == stepCalculate(tree, FALSE)
  IN IF r.foundNext THEN stepToEnd(r.node) ELSE markOptimalPath(r.node)

RECURSIVE autoLogsToEnd(_, _, _)
\* The entries the auto loop passes to setLogs from position i on, with every
\* pacing delay elapsed and no cancellation.
autoLogsToEnd(workingRoot, nodesInOrder, i) ==
  LET run == RunLoop(workingRoot, nodesInOrder, i)
      node == NodeById(run.workingRoot, nodesInOrder[run.i])
      val == calculateNodeEMV(node)
  IN IF run.exhausted THEN <<>>
     ELSE <<LogEntry(node, val)>>
            \o autoLogsToEnd(SetCalculatedValue(run.workingRoot, node.id, Some(val)),
                             nodesInOrder, run.i + 1)

\* The log handleSolve(false), invoked on tree in Edit and never cancelled,
\* has written when it enters Solved.
replayLogsToEnd(tree) ==
  LET workingRoot == clearValuesSolve(JsonClone(tree))
      nodesInOrder == LET F(n) == n.id IN Map(F, flattenTreePostOrder(workingRoot))
  IN autoLogsToEnd(workingRoot, nodesInOrder, 1)

RECURSIVE stepLogsToEnd(_)
\* The log handleSolve(true), invoked on tree again and again, has written
\* when it enters Solved.
stepLogsToEnd(tree) ==
  LET r == stepCalculate(tree, FALSE)
  IN IF r.foundNext THEN r.log \o stepLogsToEnd(r.node) ELSE <<>>

(* ------------------- the tree utilities on their own ------------------- *)

\* The functions of treeUtils.ts called directly, one call per step, on a tree
\* the caller holds in root: no handler, no guard of the property form.  lastOp
\* records the call, its arguments and what it returned; nEdits counts the
\* calls; the controller's other cells stay as the App starts them.

\* Scenario A: a Decision root with two Chance children, A with outcomes
\* 100 @ 0.5 and 0 @ 0.5, B with the single outcome 40 @ 1.0.
ScenarioA ==
  TreeNode(RootId, DECISION, "root", Some(0), Undefined,
    << TreeNode(3, CHANCE, "A", Some(0), Some(5),
         << TreeNode(1, TERMINAL, "a1", Some(100), Some(5), <<>>),
            TreeNode(2, TERMINAL, "a2", Some(0), Some(5), <<>>) >>),
       TreeNode(5, CHANCE, "B", Some(0), Some(5),
         << TreeNode(4, TERMINAL, "b1", Some(40), Some(10), <<>>) >>) >>)

\* Decisions below a decision: losses only under the first, a tie under the
\* second, and the better branch third.
NestedDecisions ==
  TreeNode(RootId, DECISION, "root", Some(0), Undefined,
    << TreeNode(3, DECISION, "losses", Some(0), Some(5),
         << TreeNode(1, TERMINAL, "l1", Some(-30), Some(5), <<>>),
            TreeNode(2, TERMINAL, "l2", Some(-10), Some(5), <<>>) >>),
       TreeNode(6, DECISION, "tie", Some(0), Some(5),
         << TreeNode(4, TERMINAL, "t1", Some(10), Some(5), <<>>),
            TreeNode(5, TERMINAL, "t2", Some(10), Some(5), <<>>) >>),
       TreeNode(7, TERMINAL, "best", Some(70), Some(5), <<>>) >>)

\* Optional fields left out, a payout that is not a number, and nodes that
\* have no children yet.
SparseTree ==
  TreeNode(RootId, CHANCE, "root", Undefined, Undefined,
    << TreeNode(1, TERMINAL, "no value", Undefined, Some(5), <<>>),
       TreeNode(2, TERMINAL, "no probability", Some(60), Undefined, <<>>),
       TreeNode(3, TERMINAL, "not a number", Some(NaN), Some(5), <<>>),
       TreeNode(4, DECISION, "empty decision", Some(0), Some(10), <<>>),
       TreeNode(5, CHANCE, "empty chance", Some(0), Some(5), <<>>) >>)

\* A tree a caller built by hand in which two nodes carry the same id, one
\* with a subtree of its own and one deeper in a later branch.
RepeatedId == 7

RepeatedIdTree ==
  TreeNode(RootId, DECISION, "root", Some(0), Undefined,
    << TreeNode(1, TERMINAL, "first", Some(20), Some(5), <<>>),
       TreeNode(RepeatedId, DECISION, "twin above", Some(0), Some(5),
         << TreeNode(4, TERMINAL, "below twin", Some(30), Some(5), <<>>) >>),
       TreeNode(3, CHANCE, "later", Some(0), Some(5),
         << TreeNode(2, TERMINAL, "before twin", Some(10), Some(5), <<>>),
            TreeNode(RepeatedId, TERMINAL, "twin below", Some(50), Some(5), <<>>),
            TreeNode(5, TERMINAL, "after twin", Some(60), Some(0), <<>>) >>) >>)

BaseTrees == {ScenarioA, NestedDecisions, SparseTree}

\* One iteration of the auto loop on the node that carries id.
evaluateNode(tree, id) ==
  LET node == NodeById(tree, id)
  IN IF node.type = TERMINAL
     THEN SetCalculatedValue(tree, id, node.value)
     ELSE SetCalculatedValue(tree, id, Some(calculateNodeEMV(node)))

RECURSIVE evaluateFirst(_, _, _)
\* The tree after the first k iterations of the loop over ids.
evaluateFirst(tree, ids, k) ==
  IF k = 0 THEN tree
  ELSE evaluateNode(evaluateFirst(tree, ids, k - 1), ids[k])

\* The trees a caller may hold: a base tree evaluated up to any point of its
\* post-order, the fully evaluated tree with its optimal path marked, and the
\* tree with the repeated id as it was built.
InputTrees ==
  UNION {LET ids == LET F(n) == n.id IN Map(F, flattenTreePostOrder(t))
         IN {evaluateFirst(t, ids, k) : k \in 0..Len(ids)}
              \cup {markOptimalPath(evaluateFirst(t, ids, Len(ids)))} : t \in BaseTrees}
    \cup {RepeatedIdTree}

\* An id no node carries.
UnknownId == 99

\* The ids of the nodes of tree.
NodeIds(tree) ==
  LET nodes == flattenTreePostOrder(tree) IN {nodes[k].id : k \in 1..Len(nodes)}

\* The number of nodes of tree that carry id.  addNodeToTree draws a new id in
\* every call of its recursion and the model hands one id to the whole call, so
\* the calls made are those that append at most once.
TimesCarried(tree, id) ==
  LET nodes == flattenTreePostOrder(tree)
  IN Cardinality({k \in 1..Len(nodes) : nodes[k].id = id})

\* The fields a caller passes to updateNodeInTree.
CallUpdates ==
  {[label |-> "renamed"], [value |-> Some(1300)], [probability |-> Some(10)]}

Call(name, args, result) == [op |-> name, args |-> args, result |-> result]

UtilsInit ==
  /\ root \in InputTrees
  /\ calculationMode = "edit"
  /\ logs = <<>>
  /\ abortControllerRef = NoController
  /\ replays = <<>>
  /\ nextId = 10
  /\ nEdits = 0
  /\ lastOp = Call("none", <<>>, <<>>)
  /\ AiInit

\* One more call, which leaves the controller's cells alone.
Called ==
  /\ nEdits < MaxEdits
  /\ nEdits' = nEdits + 1
  /\ UNCHANGED <<calculationMode, logs, abortControllerRef, replays, aiVars>>

callUpdateNodeInTree(id, updates) ==
  /\ Called
  /\ root' = updateNodeInTree(root, id, updates)
  /\ lastOp' = Call("updateNodeInTree", <<id, updates>>, root')
  /\ UNCHANGED nextId

callAddNodeToTree(parentId, type) ==
  /\ Called
  /\ root' = addNodeToTree(root, parentId, type, nextId)
  /\ lastOp' = Call("addNodeToTree", <<parentId, type>>, root')
  /\ nextId' = nextId + 1

callDeleteNodeFromTree(id) ==
  /\ Called
  /\ root' = deleteNodeFromTree(root, id)
  /\ lastOp' = Call("deleteNodeFromTree", <<id>>, root')
  /\ UNCHANGED nextId

callMarkOptimalPath ==
  /\ Called
  /\ root' = markOptimalPath(root)
  /\ lastOp' = Call("markOptimalPath", <<>>, root')
  /\ UNCHANGED nextId

\* The visualizer lays out the tree it is handed, which stays as it is.
callLayoutTree ==
  /\ Called
  /\ lastOp' = Call("layoutTree", <<>>, layoutTree(root))
  /\ UNCHANGED <<root, nextId>>

\* node.calculatedValue = calculateNodeEMV(node) for the node that carries id
callCalculateNodeEMV(id) ==
  /\ Called
  /\ \E val \in {calculateNodeEMV(NodeById(root, id))} :
       /\ root' = SetCalculatedValue(root, id, Some(val))
       /\ lastOp' = Call("calculateNodeEMV", <<id>>, val)
  /\ UNCHANGED nextId

UtilsNext ==
  \/ \E id \in NodeIds(root) \cup {UnknownId} : \E u \in CallUpdates :
       callUpdateNodeInTree(id, u)
  \/ \E id \in NodeIds(root) \cup {UnknownId} : \E type \in NodeType :
       TimesCarried(root, id) <= 1 /\ callAddNodeToTree(id, type)
  \/ \E id \in NodeIds(root) \cup {UnknownId} : callDeleteNodeFromTree(id)
  \/ callMarkOptimalPath
  \/ \E id \in NodeIds(root) : callCalculateNodeEMV(id)
  \/ callLayoutTree

UtilsSpec == UtilsInit /\ [][UtilsNext]_vars

(* ----------------------- vocabulary of the claims ---------------------- *)

RECURSIVE Subtree(_)
\* The nodes of the tree rooted at n, n included.
Subtree(n) == {n} \cup UNION {Subtree(n.children[i]) : i \in 1..Len(n.children)}

RECURSIVE PostOrder(_, _)
\* The ids of the nodes of the forest ns, children before their parent.
PostOrder(ns, k) ==
  IF k > Len(ns) THEN <<>>
  ELSE PostOrder(ns[k].children, 1) \o <<ns[k].id>> \o PostOrder(ns, k + 1)

\* The node of tree t that carries id.
Carrier(t, id) == findNode(t, id)[1]

HasValue(n) == n.calculatedValue # <<>>

\* No node of t carries a derived field.
NoDerived(t) == \A n \in Subtree(t) : n.calculatedValue = <<>> /\ n.isOptimal = <<>>

RECURSIVE Stripped(_)
\* t without its derived fields.
Stripped(t) ==
  [id |-> t.id, type |-> t.type, label |-> t.label, value |-> t.value,
   probability |-> t.probability, calculatedValue |-> <<>>, isOptimal |-> <<>>,
   children |-> [i \in 1..Len(t.children) |-> Stripped(t.children[i])] \o <<>>]

RECURSIVE BackwardInduction(_)
\* The value backward induction gives the subtree n, from values and
\* probabilities alone: a Terminal node's own value, the largest child value
\* of a Decision node, the probability-weighted sum of a Chance node; 0 for a
\* node without children.  A payout or probability that is not a number makes
\* every value that depends on it not a number; null counts as 0.
BackwardInduction(n) ==
  LET kids == [i \in 1..Len(n.children) |-> BackwardInduction(n.children[i])] \o <<>>
      Prob(i) == IF n.children[i].probability \in {<<>>, <<Null>>} THEN 0
                 ELSE n.children[i].probability[1]
      Kid(i) == IF kids[i] = Null THEN 0 ELSE kids[i]
      Sum[i \in 0..Len(kids)] ==
        IF i = 0 THEN 0 ELSE Sum[i - 1] + (Kid(i) * Prob(i)) \div 10
  IN IF n.type = "TERMINAL" THEN n.value[1]
     ELSE IF kids = <<>> THEN 0
     ELSE IF n.type = "DECISION"
          THEN IF \E i \in 1..Len(kids) : kids[i] = NaN THEN NaN
               ELSE CHOOSE m \in {Kid(i) : i \in 1..Len(kids)} :
                      \A i \in 1..Len(kids) : Kid(i) <= m
     ELSE IF \E i \in 1..Len(kids) : kids[i] = NaN \/ Prob(i) = NaN THEN NaN
          ELSE Sum[Len(kids)]

\* The suspended replays whose controller has not been aborted.
InFlight == {k \in 1..Len(replays) : ~replays[k].aborted}

\* A replay continuation ran in this step.
Resumed == lastOp'.op \in {"resume", "cancelled"} /\ replays # <<>>

(* -------------------------------- C1 ----------------------------------- *)

\* C1: at most one auto-replay is in flight and not cancelled; a step or auto
\* solve invoked while a replay is suspended leaves every earlier replay
\* cancelled, and a replay the controller no longer holds writes neither the
\* log, nor the tree, nor the mode when its delay elapses.
C1_SingleReplay ==
  /\ [](Cardinality(InFlight) <= 1)
  /\ [][lastOp'.op \in {"step", "auto"}
          => \A k \in 1..Len(replays) : replays'[k].controller = replays[k].controller
                                          /\ replays'[k].aborted]_vars
  /\ [][Resumed /\ Head(replays).controller # abortControllerRef
          => UNCHANGED <<root, logs, calculationMode>>]_vars

\* A second auto solve was issued while the first was suspended.
C1_Witness ==
  /\ lastOp.op = "auto"
  /\ Len(replays) = 2
  /\ replays[1].aborted
  /\ ~replays[2].aborted

(* -------------------------------- C2 ----------------------------------- *)

\* The log entries and the values a solve handler finds are all still there
\* when it returns.
NothingRolledBack ==
  /\ Len(logs') >= Len(logs)
  /\ SubSeq(logs', 1, Len(logs)) = logs
  /\ \A n \in Subtree(root) :
       HasValue(n) => Carrier(root', n.id).calculatedValue = n.calculatedValue

\* C2: a replay cancelled after k entries applies no further mutation: when its
\* delay elapses the log (still its k entries, plus whatever the cancelling
\* solve wrote), the tree and the mode stay as they are; and a solve that
\* cancels it rolls nothing back.
C2_CancelledReplayIsInert ==
  /\ [][Resumed /\ Head(replays).controller # abortControllerRef
          => /\ UNCHANGED <<root, logs, calculationMode>>
             /\ replays' = Tail(replays)]_vars
  /\ [][lastOp'.op \in {"step", "auto"} /\ InFlight # {} => NothingRolledBack]_vars

\* The replay wrote one entry, was cancelled by a second auto solve, and has
\* returned since: the log is that one entry and the second replay waits.
C2_Witness ==
  /\ lastOp.op = "cancelled"
  /\ Len(logs) = 1
  /\ calculationMode = "step"
  /\ InFlight # {}
  /\ ~HasValue(Carrier(root, 6))

(* -------------------------------- C3 ----------------------------------- *)

\* C3: in every reachable state every node that carries a calculatedValue
\* carries the value backward induction gives its current subtree.
C3_NeverStale ==
  \A n \in Subtree(root) : HasValue(n) => n.calculatedValue[1] = BackwardInduction(n)

(* -------------------------------- C4 ----------------------------------- *)

\* The trees one update, addChild or delete request makes of t.
Mutations(t) ==
  LET sel == {n \in Subtree(t) : n.id \in SelectableIds}
  IN {updateNodeInTree(t, n.id, u) : n \in sel, u \in UNION {UpdatesFor(m) : m \in sel}}
       \cup {addNodeToTree(t, n.id, type, nextId) : n \in sel, type \in NodeType}
       \cup {deleteNodeFromTree(t, n.id) : n \in sel}

\* C4: an update, addChild or delete issued in Stepping or Solved cancels the
\* replay in flight, ends in Edit with an empty log, and leaves the tree the
\* mutation makes of the cleared tree: no node carries a derived field.
C4_MutationResets ==
  [][nEdits' # nEdits /\ calculationMode # "edit"
       => /\ calculationMode' = "edit"
          /\ logs' = <<>>
          /\ abortControllerRef' = NoController
          /\ \A k \in 1..Len(replays') : replays'[k].aborted
          /\ NoDerived(root')
          /\ root' \in Mutations(Stripped(root))]_vars

\* An edit arrived while a replay was suspended, after it had published values.
C4_Witness ==
  /\ lastOp.op \in {"update", "add", "delete"}
  /\ lastOp.from = "step"
  /\ replays # <<>>
  /\ root # createInitialTree

(* -------------------------------- C5 ----------------------------------- *)

\* C5: a non-terminal node has a calculatedValue only if each of its children
\* has one.
C5_PostOrderDependency ==
  \A n \in Subtree(root) :
    n.type # "TERMINAL" /\ HasValue(n)
      => \A i \in 1..Len(n.children) : HasValue(n.children[i])

\* A replay has published the first chance node and not yet the root.
C5_Witness ==
  /\ lastOp.op = "resume"
  /\ HasValue(Carrier(root, 3))
  /\ ~HasValue(root)

(* -------------------------------- C6 ----------------------------------- *)

\* The ids of the log's entries, in log order.
LoggedIds == [k \in 1..Len(logs) |-> logs[k].node] \o <<>>

\* a names a node of the tree and d a node strictly below it.
IsDescendant(d, a) ==
  \E n \in Subtree(root) :
    n.id = a /\ d # a /\ \E m \in Subtree(n) : m.id = d

\* C6: in the log no entry of a node comes before the entry of one of its
\* descendants, and no node has two entries.
C6_PostOrderLog ==
  \A i, j \in 1..Len(logs) :
    i < j => /\ logs[i].node # logs[j].node
             /\ ~IsDescendant(logs[j].node, logs[i].node)

\* A run that mixed both: the first chance node by a manual step, the others
\* and the root by a replay started in Stepping.
C6_Witness ==
  /\ lastOp = Op("resume", "step")
  /\ calculationMode = "auto"
  /\ LoggedIds = <<3, 6, 9, 0>>

(* -------------------------------- C7 ----------------------------------- *)

\* The ids of the non-terminal nodes of the tree, children before parents.
NonTerminalPostOrder ==
  SelectSeq(PostOrder(<<root>>, 1), LAMBDA id : Carrier(root, id).type # "TERMINAL")

\* A Decision root with two Chance children of two Terminal leaves each.
ScenarioB ==
  /\ root.type = "DECISION"
  /\ Len(root.children) = 2
  /\ \A i \in 1..2 :
       /\ root.children[i].type = "CHANCE"
       /\ Len(root.children[i].children) = 2
       /\ \A j \in 1..2 : root.children[i].children[j].type = "TERMINAL"

\* C7: when a replay started from Edit runs to its end, the log holds one
\* entry per non-terminal node, in post-order, and none for a Terminal node;
\* on the scenario tree these are the two Chance nodes, then the root.
C7_AutoLogsNonTerminals ==
  lastOp = Op("resume", "edit") /\ calculationMode = "auto"
    => /\ LoggedIds = NonTerminalPostOrder
       /\ \A k \in 1..Len(logs) : logs[k].nodeType # "TERMINAL"
       /\ ScenarioB => /\ Len(logs) = 3
                       /\ [k \in 1..3 |-> logs[k].nodeType] = <<"CHANCE", "CHANCE", "DECISION">>
                       /\ logs[3].node = RootId

\* The replay of the scenario tree, started from Edit, has reached Solved.
C7_Witness ==
  /\ lastOp = Op("resume", "edit")
  /\ calculationMode = "auto"
  /\ ScenarioB
  /\ Len(logs) = 3

(* -------------------------------- C8 ----------------------------------- *)

\* The ids of the nodes whose calculatedValue this step changed.
Evaluated == {n.id : n \in {m \in Subtree(root') :
                              m.calculatedValue # Carrier(root, m.id).calculatedValue}}

\* The first id of seq that satisfies Ready, as a set: empty when none does.
First(seq, Ready(_)) ==
  {seq[k] : k \in {i \in 1..Len(seq) :
                     Ready(seq[i]) /\ \A h \in 1..(i - 1) : ~Ready(seq[h])}}

\* The node lacks a calculatedValue and each of its children has one.
ReadyIn(t, id) ==
  LET n == Carrier(t, id)
  IN ~HasValue(n) /\ \A i \in 1..Len(n.children) : HasValue(n.children[i])

\* A manual step taken while some node lacks a calculatedValue.
StepWithWorkLeft ==
  /\ lastOp'.op = "step"
  /\ \E n \in Subtree(root) : ~HasValue(n)

\* C8 as stated: the step evaluates exactly one node, the first in post-order
\* that lacks a calculatedValue and whose children all have one, and appends
\* one log entry, for that node.
C8_StepEvaluatesOneNode ==
  [][StepWithWorkLeft
       => LET Ready(id) == ReadyIn(root, id)
          IN /\ Evaluated = First(PostOrder(<<root>>, 1), Ready)
             /\ Len(logs') = Len(logs) + 1
             /\ {logs'[Len(logs')].node} = Evaluated]_vars

\* The tree with every Terminal node given its own value where it has none.
RECURSIVE WithTerminals(_)
WithTerminals(t) ==
  [id |-> t.id, type |-> t.type, label |-> t.label, value |-> t.value,
   probability |-> t.probability, isOptimal |-> t.isOptimal,
   calculatedValue |-> IF t.type = "TERMINAL" /\ t.calculatedValue = <<>>
                       THEN t.value ELSE t.calculatedValue,
   children |-> [i \in 1..Len(t.children) |-> WithTerminals(t.children[i])] \o <<>>]

\* C8 amended: the step gives every Terminal node that lacks a calculatedValue
\* its own value, unlogged; it evaluates exactly one non-terminal node, the
\* first in post-order that lacks a calculatedValue and whose children all
\* have one once the Terminal nodes have theirs, and appends exactly one log
\* entry, for that node, holding the node's new value; no other non-terminal
\* node's calculatedValue changes.
C8_StepEvaluatesOneNonTerminal ==
  [][StepWithWorkLeft
       => LET assigned == WithTerminals(root)
              Ready(id) == ReadyIn(assigned, id)
              target == First(PostOrder(<<root>>, 1), Ready)
              nonTerminal == {n.id : n \in {m \in Subtree(root) : m.type # "TERMINAL"}}
          IN /\ target # {}
             /\ target \subseteq nonTerminal
             /\ Evaluated \cap nonTerminal = target
             /\ \A n \in Subtree(root') :
                  n.id \notin target
                    => n.calculatedValue = Carrier(assigned, n.id).calculatedValue
             /\ Len(logs') = Len(logs) + 1
             /\ SubSeq(logs', 1, Len(logs)) = logs
             /\ {logs'[Len(logs')].node} = target
             /\ \A id \in target :
                  Carrier(root', id).calculatedValue = <<logs'[Len(logs')].result>>]_vars

\* The first manual step on the initial tree: six Terminal nodes and the first
\* Chance node were given values, one entry was logged.
C8_Witness ==
  /\ lastOp = Op("step", "edit")
  /\ Len(logs) = 1
  /\ logs[1].node = 3
  /\ Cardinality({n \in Subtree(root) : HasValue(n)}) = 7

(* -------------------------------- C9 ----------------------------------- *)

\* Two calculatedValue fields hold the same amount: both hold a number (null
\* read as 0) and the numbers are equal; NaN is no amount.
SameAmount(a, b) ==
  /\ a # <<>> /\ b # <<>>
  /\ a[1] # NaN /\ b[1] # NaN
  /\ (IF a[1] = Null THEN 0 ELSE a[1]) = (IF b[1] = Null THEN 0 ELSE b[1])

\* Every child of an evaluated Decision node is flagged, and flagged true
\* exactly when its value is the Decision node's value.
Marked ==
  \A n \in Subtree(root) :
    n.type = "DECISION" /\ HasValue(n)
      => \A i \in 1..Len(n.children) :
           n.children[i].isOptimal
             = <<SameAmount(n.children[i].calculatedValue, n.calculatedValue)>>

\* C9: in Solved every node has a calculatedValue and the optimal path is
\* marked; Solved is entered from Stepping only: by a manual step that writes
\* no log entry, or by a replay that has exhausted its sequence.
C9_Solved ==
  /\ [](calculationMode = "auto" => (\A n \in Subtree(root) : HasValue(n)) /\ Marked)
  /\ [][calculationMode # "auto" /\ calculationMode' = "auto"
          => /\ calculationMode = "step"
             /\ \/ lastOp'.op = "step" /\ logs' = logs
                \/ lastOp'.op \in {"resume", "auto"}]_vars

\* Solved was entered by the manual step that found nothing left to evaluate.
C9_Witness ==
  /\ lastOp = Op("step", "step")
  /\ calculationMode = "auto"
  /\ Len(logs) = Cardinality({n \in Subtree(root) : n.type # "TERMINAL"})

(* -------------------------------- C10 ---------------------------------- *)

\* C10: an auto solve invoked in Edit or Solved first publishes a tree in
\* which no node of any type carries calculatedValue or isOptimal, with an
\* empty log.
C10_AutoStartsFromFullReset ==
  [][lastOp'.op = "auto" /\ lastOp'.from \in {"edit", "auto"}
       => NoDerived(root') /\ logs' = <<>>]_vars

(* -------------------------------- C11 ---------------------------------- *)

\* C11: a reset, from Edit, from Stepping with or without a suspended replay,
\* or from Solved, leaves no replay in flight, the mode Edit, the log empty and
\* no calculatedValue or isOptimal on any node, and every node's id, type,
\* label, value, probability and child order as they were.
C11_ResetClears ==
  [][lastOp'.op = "reset"
       => /\ \A k \in 1..Len(replays') : replays'[k].aborted
          /\ abortControllerRef' = NoController
          /\ calculationMode' = "edit"
          /\ logs' = <<>>
          /\ NoDerived(root')
          /\ root' = Stripped(root)]_vars

\* A reset arrived in Stepping while a replay was suspended: the replay is
\* still waiting at its delay, cancelled.
C11_Witness ==
  /\ lastOp = Op("reset", "step")
  /\ replays # <<>>
  /\ calculationMode = "edit"
  /\ NoDerived(root)

(* -------------------------------- C12 ---------------------------------- *)

\* The replay that holds controller c is suspended and not cancelled.
InFlightWith(c) ==
  \E k \in 1..Len(replays) : replays[k].controller = c /\ ~replays[k].aborted

\* The replay that holds controller c has been cancelled.
CancelledWith(c) ==
  \E k \in 1..Len(replays) : replays[k].controller = c /\ replays[k].aborted

\* A replay has just run to its end: every node has a calculatedValue, the
\* optimal path is marked and the controller is in Solved.
ReplayCompleted ==
  /\ lastOp.op = "resume"
  /\ calculationMode = "auto"
  /\ \A n \in Subtree(root) : HasValue(n)
  /\ Marked

\* C12: when every pacing delay eventually elapses, a replay in flight is
\* cancelled (by a reset, a mutation or a new solve) or runs to its end, marks
\* the optimal path and reaches Solved.
C12_ReplayReachesSolved ==
  \A c \in Controllers : InFlightWith(c) ~> (ReplayCompleted \/ CancelledWith(c))

\* A replay started from Edit on an edited tree ran to its end uncancelled.
C12_Witness ==
  /\ ReplayCompleted
  /\ lastOp.from = "edit"
  /\ replays = <<>>
  /\ nEdits = 1

(* -------------------------------- C13 ---------------------------------- *)

\* C13: in every Solved state each Decision node that has a calculatedValue
\* has a child that carries the same calculatedValue and is flagged optimal.
C13_DecisionOptimality ==
  calculationMode = "auto"
    => \A n \in Subtree(root) :
         n.type = "DECISION" /\ HasValue(n)
           => \E i \in 1..Len(n.children) :
                /\ n.children[i].calculatedValue = n.calculatedValue
                /\ n.children[i].isOptimal = <<TRUE>>

(* -------------------------------- C14 ---------------------------------- *)

\* What a calculatedValue field counts for in a maximum: 0 when the field is
\* not set.
Counted(cv) == IF cv \in {<<>>, <<Null>>} THEN 0 ELSE cv[1]

\* C14: calculateNodeEMV of a Decision node is the largest calculatedValue of
\* its children, a child without one counting as 0, and 0 when the node has no
\* children (not a number when a child's calculatedValue is not a number); of
\* a Terminal node it is the node's own value, and 0 when that is missing or
\* not a number.
C14_DecisionMaxTerminalValue ==
  [][lastOp'.op = "calculateNodeEMV"
       => LET n == Carrier(root, lastOp'.args[1])
              result == lastOp'.result
              kids == {Counted(n.children[i].calculatedValue) : i \in 1..Len(n.children)}
          IN /\ n.type = "TERMINAL"
                  => result = IF n.value \in {<<>>, <<Null>>, <<NaN>>} THEN 0 ELSE n.value[1]
             /\ n.type = "DECISION" /\ kids = {} => result = 0
             /\ n.type = "DECISION" /\ kids # {} /\ NaN \in kids => result = NaN
             /\ n.type = "DECISION" /\ kids # {} /\ NaN \notin kids
                  => result \in kids /\ \A k \in kids : k <= result]_vars

\* calculateNodeEMV was applied to a Decision node whose evaluated children
\* are all losses while another child has no calculatedValue yet: the result
\* is the 0 the missing child counts for.
C14_Witness ==
  /\ lastOp.op = "calculateNodeEMV"
  /\ lastOp.result = 0
  /\ LET n == Carrier(root, lastOp.args[1])
     IN /\ n.type = "DECISION"
        /\ \E i \in 1..Len(n.children) : n.children[i].calculatedValue = <<>>
        /\ \E i \in 1..Len(n.children) : n.children[i].calculatedValue = <<-30>>

(* -------------------------------- C15 ---------------------------------- *)

\* The sum over the children of n of calculatedValue times probability, a
\* missing probability counting as 0; not a number when a factor is not one.
WeightedSum(n) ==
  LET Value(i) == n.children[i].calculatedValue
      Prob(i) == n.children[i].probability
      Term(i) == IF Prob(i) \in {<<>>, <<Null>>} \/ Value(i) \in {<<>>, <<Null>>} THEN 0
                 ELSE (Value(i)[1] * Prob(i)[1]) \div 10
      Sum[i \in 0..Len(n.children)] == IF i = 0 THEN 0 ELSE Sum[i - 1] + Term(i)
  IN IF \E i \in 1..Len(n.children) : Value(i) = <<NaN>> \/ Prob(i) = <<NaN>>
     THEN NaN
     ELSE Sum[Len(n.children)]

\* C15: in every Solved state each Chance node's calculatedValue is the sum
\* over its children of calculatedValue times probability, whether or not the
\* probabilities sum to 1.
C15_ChanceExpectation ==
  calculationMode = "auto"
    => \A n \in Subtree(root) :
         n.type = "CHANCE" => n.calculatedValue = <<WeightedSum(n)>>

(* -------------------------------- C16 ---------------------------------- *)

\* The tree without its isOptimal flags.
RECURSIVE Unflagged(_)
Unflagged(t) ==
  [id |-> t.id, type |-> t.type, label |-> t.label, value |-> t.value,
   probability |-> t.probability, calculatedValue |-> t.calculatedValue,
   isOptimal |-> <<>>,
   children |-> [i \in 1..Len(t.children) |-> Unflagged(t.children[i])] \o <<>>]

\* C16: after markOptimalPath every child, if it has a calculatedValue, of
\* every Decision node that has one is flagged true when the two values are
\* the same amount and false otherwise, wherever the Decision node lies, so
\* tied maxima are all flagged; nothing but flags changes; on the evaluated
\* scenario tree (A = 50, B = 40, root = 50) A is flagged true and B false.
C16_MarkFlagsMaxima ==
  [][lastOp'.op = "markOptimalPath"
       => /\ \A n \in Subtree(root') :
               n.type = "DECISION" /\ HasValue(n)
                 => \A i \in 1..Len(n.children) :
                      /\ n.children[i].isOptimal \in {<<TRUE>>, <<FALSE>>}
                      /\ HasValue(n.children[i])
                           => n.children[i].isOptimal
                                = <<SameAmount(n.children[i].calculatedValue,
                                               n.calculatedValue)>>
          /\ Unflagged(root') = Unflagged(root)
          /\ (/\ Stripped(root) = ScenarioA
              /\ \A n \in Subtree(root) : n.calculatedValue = <<BackwardInduction(n)>>)
               => /\ root'.calculatedValue = <<50>>
                  /\ Carrier(root', 3).calculatedValue = <<50>>
                  /\ Carrier(root', 5).calculatedValue = <<40>>
                  /\ Carrier(root', 3).isOptimal = <<TRUE>>
                  /\ Carrier(root', 5).isOptimal = <<FALSE>>]_vars

\* markOptimalPath was applied to the evaluated tree of nested decisions: the
\* two tied outcomes are both flagged, under a Decision node that is itself
\* flagged false.
C16_Witness ==
  /\ lastOp.op = "markOptimalPath"
  /\ Stripped(root) = NestedDecisions
  /\ Carrier(root, 6).isOptimal = <<FALSE>>
  /\ Carrier(root, 4).isOptimal = <<TRUE>>
  /\ Carrier(root, 5).isOptimal = <<TRUE>>
  /\ Carrier(root, 7).isOptimal = <<TRUE>>

(* -------------------------------- C17 ---------------------------------- *)

\* The calculatedValue and the isOptimal flag of every node of t.
Results(t) == {<<n.id, n.calculatedValue, n.isOptimal>> : n \in Subtree(t)}

\* C17: in every Solved state, evaluating the tree again with no mutation in
\* between, by an auto solve restarted from Solved, or by a reset followed by
\* an auto solve or by manual steps, gives every node the calculatedValue and
\* the isOptimal flag it has.
C17_EvaluationIdempotent ==
  calculationMode = "auto"
    => /\ Results(replayToEnd(root, "auto")) = Results(root)
       /\ Results(replayToEnd(clearValues(root), "edit")) = Results(root)
       /\ Results(stepToEnd(clearValues(root))) = Results(root)

(* -------------------------------- C18 ---------------------------------- *)

\* The call lastOp' records, made on the objects of the tree it was given:
\* the heap before, and the heap and the address it returns.
HeapBefore == Load(<<>>, root)

HeapAfter ==
  LET before == HeapBefore
      args == lastOp'.args
  IN CASE lastOp'.op = "updateNodeInTree"
            -> updateNodeInTreeAt(before.heap, before.at, args[1], args[2])
       [] lastOp'.op = "addNodeToTree"
            -> addNodeToTreeAt(before.heap, before.at, args[1], args[2], nextId)
       [] lastOp'.op = "deleteNodeFromTree"
            -> deleteNodeFromTreeAt(before.heap, before.at, args[1])
       [] lastOp'.op = "markOptimalPath"
            -> markOptimalPathAt(before.heap, before.at)

\* C18: updateNodeInTree, addNodeToTree, deleteNodeFromTree and
\* markOptimalPath leave every object of the tree they are given as it was:
\* the tree read from the original root after the call is the tree given, and
\* the result is read from objects the call created.
C18_NonMutation ==
  [][lastOp'.op \in {"updateNodeInTree", "addNodeToTree",
                     "deleteNodeFromTree", "markOptimalPath"}
       => LET before == HeapBefore
              after == HeapAfter
          IN /\ SubSeq(after.heap, 1, Len(before.heap)) = before.heap
             /\ Read(after.heap, before.at) = root
             /\ after.at > Len(before.heap)
             /\ Read(after.heap, after.at) = root']_vars

\* markOptimalPath has flagged the children of a Decision node of a tree that
\* carried no flag.
C18_Witness ==
  /\ lastOp.op = "markOptimalPath"
  /\ Stripped(root) = ScenarioA
  /\ Carrier(root, 3).isOptimal = <<TRUE>>
  /\ nEdits = 1

(* -------------------------------- C19 ---------------------------------- *)

\* C19: deleteNodeFromTree given the id of the root returns a tree equal to
\* the one it was given: the root and every node below it stay.
C19_RootProtection ==
  [][lastOp'.op = "deleteNodeFromTree" /\ lastOp'.args[1] = root.id
       => root' = root /\ lastOp'.result = root]_vars

\* deleteNodeFromTree has been called with the id of the root of a tree that
\* has children.
C19_Witness ==
  /\ lastOp.op = "deleteNodeFromTree"
  /\ lastOp.args = <<root.id>>
  /\ Len(root.children) = 3
  /\ IsDefined(root.calculatedValue)

(* -------------------------------- C20 ---------------------------------- *)

\* C20: updateNodeInTree, addNodeToTree and deleteNodeFromTree called with an
\* id that no node of the tree carries return a tree equal to the one given.
C20_NotFoundNoOp ==
  [][(lastOp'.op \in {"updateNodeInTree", "addNodeToTree", "deleteNodeFromTree"}
        /\ lastOp'.args[1] \notin NodeIds(root))
       => root' = root /\ lastOp'.result = root]_vars

\* addNodeToTree has been called for a parent that is not in the tree.
C20_Witness ==
  /\ lastOp.op = "addNodeToTree"
  /\ lastOp.args[1] = UnknownId
  /\ UnknownId \notin NodeIds(root)
  /\ Len(root.children) > 0

(* -------------------------------- C22 ---------------------------------- *)

\* The fields of a node other than its children.
Fields(n) == [n EXCEPT !.children = <<>>]

RECURSIVE Outline(_, _)
\* The nodes of t in depth-first order, parents before children, each with
\* its fields and the ids on the way from the root down to it.  The length of
\* lineage is the depth, so an outline determines the tree.
Outline(t, above) ==
  LET lineage == Append(above, t.id)
  IN <<[node |-> Fields(t), lineage |-> lineage]>>
       \o SeqConcat(LET F(c) == Outline(c, lineage) IN Map(F, t.children))

Range(seq) == {seq[k] : k \in 1..Len(seq)}

\* C22: deleteNodeFromTree given an id other than the root's returns the input
\* without the nodes that carry the id or lie below a node that carries it:
\* every other node is there, with its fields, its depth and ancestors, and in
\* the same order; no node of the result carries the id.
C22_DeleteRemovesEveryCarrier ==
  [][(lastOp'.op = "deleteNodeFromTree" /\ lastOp'.args[1] # root.id)
       => LET id == lastOp'.args[1]
          IN /\ Outline(root', <<>>)
                  = SelectSeq(Outline(root, <<>>), LAMBDA e : id \notin Range(e.lineage))
             /\ findNode(root', id) = <<>>
             /\ lastOp'.result = root']_vars

\* deleteNodeFromTree has removed both carriers of the repeated id, the one
\* with a child below it and the one among the children of a later branch.
C22_Witness ==
  /\ lastOp.op = "deleteNodeFromTree"
  /\ lastOp.args = <<RepeatedId>>
  /\ LET ids == LET F(e) == e.node.id IN Map(F, Outline(root, <<>>))
     IN ids = <<RootId, 1, 3, 2, 5>>

(* -------------------------------- C21 ---------------------------------- *)

TerminalsChildless(t) ==
  \A n \in Subtree(t) : n.type = TERMINAL => n.children = <<>>

\* C21: addNodeToTree called for a parent that is a Terminal node returns the
\* tree it was given, and no call gives a Terminal node a child.
C21_TerminalParentRejected ==
  [][/\ (lastOp'.op = "addNodeToTree"
          /\ lastOp'.args[1] \in NodeIds(root)
          /\ Carrier(root, lastOp'.args[1]).type = TERMINAL)
         => root' = root
     /\ TerminalsChildless(root) => TerminalsChildless(root')]_vars

\* In the application, where the add-child buttons are offered for Decision
\* and Chance nodes only, no Terminal node ever has a child.
C21_TerminalsChildlessInApp == TerminalsChildless(root)

(* -------------------------------- C23 ---------------------------------- *)

\* The positions of the outline o whose node carries id.
Carriers(o, id) == {k \in 1..Len(o) : o[k].node.id = id}

\* C23: addNodeToTree given the id of a node of the tree (carried once, as
\* ids are unique) returns the input with one node more: a node with a new
\* id, the requested type, value 0, probability 0.5, no calculatedValue, no
\* flag and no children, placed as the last child of that node; every node of
\* the input is in the result with its fields, ancestors and order.
C23_AddAppendsOneChild ==
  [][(lastOp'.op = "addNodeToTree"
        /\ Cardinality(Carriers(Outline(root, <<>>), lastOp'.args[1])) = 1)
       => LET o == Outline(root, <<>>)
              parent == CHOOSE k \in 1..Len(o) : o[k].node.id = lastOp'.args[1]
              \* the last position of the parent's subtree
              last == CHOOSE k \in parent..Len(o) :
                        /\ \A j \in parent..k : lastOp'.args[1] \in Range(o[j].lineage)
                        /\ k < Len(o) => lastOp'.args[1] \notin Range(o[k + 1].lineage)
              after == Outline(root', <<>>)
              added == after[last + 1]
          IN /\ Len(after) = Len(o) + 1
             /\ SubSeq(after, 1, last) = SubSeq(o, 1, last)
             /\ SubSeq(after, last + 2, Len(after)) = SubSeq(o, last + 1, Len(o))
             /\ added.lineage = Append(o[parent].lineage, added.node.id)
             /\ added.node.id \notin NodeIds(root)
             /\ added.node.type = lastOp'.args[2]
             /\ added.node.value = <<0>>
             /\ added.node.probability = <<5>>
             /\ added.node.calculatedValue = <<>>
             /\ added.node.isOptimal = <<>>
             /\ lastOp'.result = root']_vars

\* addNodeToTree has put a third outcome after the two outcomes of Chance
\* node A of the scenario tree, which is followed by branch B.
C23_Witness ==
  /\ lastOp.op = "addNodeToTree"
  /\ lastOp.args = <<3, TERMINAL>>
  /\ LET ids == LET F(e) == e.node.id IN Map(F, Outline(root, <<>>))
     IN ids = <<RootId, 3, 1, 2, 10, 5, 4>>

(* -------------------------------- C24 ---------------------------------- *)

\* C24: updateNodeInTree given the id of a node of the tree returns the input
\* with the fields named in the update set on the node that carries the id:
\* that node's other fields, and every other node, are as in the input, and
\* so are the shape of the tree and the order of the children.
C24_UpdateChangesNamedFieldsOnly ==
  [][(lastOp'.op = "updateNodeInTree" /\ lastOp'.args[1] \in NodeIds(root))
       => LET id == lastOp'.args[1]
              updates == lastOp'.args[2]
              before == Outline(root, <<>>)
              after == Outline(root', <<>>)
          IN /\ Len(after) = Len(before)
             /\ \A k \in 1..Len(before) :
                  /\ after[k].lineage = before[k].lineage
                  /\ DOMAIN after[k].node = DOMAIN before[k].node
                  /\ \A f \in DOMAIN before[k].node :
                       after[k].node[f] =
                         IF before[k].node.id = id /\ f \in DOMAIN updates
                         THEN updates[f] ELSE before[k].node[f]
             /\ lastOp'.result = root']_vars

\* updateNodeInTree has set the payout of the first outcome of the scenario
\* tree, which had been evaluated at its old payout.
C24_Witness ==
  /\ lastOp.op = "updateNodeInTree"
  /\ lastOp.args = <<1, [value |-> <<1300>>]>>
  /\ Stripped(root) # Stripped(ScenarioA)
  /\ Carrier(root, 1).value = <<1300>>
  /\ Carrier(root, 1).calculatedValue = <<100>>
  /\ Carrier(root, 3).calculatedValue = <<50>>

(* -------------------------------- C25 ---------------------------------- *)

\* C25: in every state the ids of the nodes of the tree are pairwise distinct
\* and the root, and no other node, carries the root id.
C25_UniqueIds ==
  /\ \A id \in NodeIds(root) : TimesCarried(root, id) = 1
  /\ root.id = RootId

\* With ids that are new whenever one is drawn, the ids stay distinct through
\* every update, insertion, deletion and evaluation.
C25_UniqueIdsWhenFresh ==
  /\ Len(flattenTreePostOrder(root)) = Cardinality(NodeIds(root))
  /\ Carriers(Outline(root, <<>>), RootId) = {1}

(* -------------------------------- C26 ---------------------------------- *)

\* C26: across every step the log stays as it is, or gets one entry more at
\* its end with the earlier entries as they were, or becomes empty; it becomes
\* empty only by a reset (asked for, or made by an edit outside edit mode) or
\* by handleSolve(false) called in edit mode or in the solved state.
C26_LogAppendOnly ==
  [][\/ logs' = logs
     \/ /\ Len(logs') = Len(logs) + 1
        /\ SubSeq(logs', 1, Len(logs)) = logs
        /\ lastOp'.op \in {"step", "resume"}
     \/ /\ logs' = <<>>
        /\ \/ lastOp'.op = "reset"
           \/ lastOp'.op \in {"update", "add", "delete"} /\ lastOp'.from # "edit"
           \/ lastOp'.op = "auto" /\ lastOp'.from \in {"edit", "auto"}]_vars

\* An invocation of handleSolve(false) that took over from manual steps has
\* added its entry behind the entries the steps had written.
C26_Witness ==
  /\ lastOp = Op("resume", "step")
  /\ Len(logs) >= 3
  /\ logs[Len(logs)].nodeType = DECISION

(* ------------------------------ C27, C28 ------------------------------- *)

RECURSIVE Placed(_, _)
\* The nodes of a layout in depth-first order, left to right, parents before
\* children: the id of the node, its depth, whether it has children, where it
\* was put, and where its first and its last child were put.
Placed(l, depth) ==
  <<[id |-> l.data.id, depth |-> depth, leaf |-> l.data.children = <<>>,
     x |-> l.x, y |-> l.y,
     ends |-> IF l.children = <<>> THEN <<>>
              ELSE <<l.children[1].y, l.children[Len(l.children)].y>>]>>
    \o SeqConcat(LET F(c) == Placed(c, depth + 1) IN Map(F, l.children))

\* The layout follows the tree: the same nodes with the same children.
RECURSIVE Follows(_, _)
Follows(l, t) ==
  /\ l.data = t
  /\ Len(l.children) = Len(t.children)
  /\ \A k \in 1..Len(t.children) : Follows(l.children[k], t.children[k])

\* C27: in a layout the nodes without children have y = 0, S, 2S, ... in
\* depth-first order from left to right, S the vertical spacing, and every
\* node has x = depth times the horizontal spacing.
C27_LeafSlotsAndColumns ==
  lastOp.op = "layoutTree"
    => LET placed == Placed(lastOp.result, 0)
           leaves == SelectSeq(placed, LAMBDA e : e.leaf)
       IN /\ Follows(lastOp.result, root)
          /\ \A k \in 1..Len(leaves) :
               leaves[k].y = (k - 1) * VERTICAL_SPACING * SubPixels
          /\ \A k \in 1..Len(placed) :
               placed[k].x = placed[k].depth * HORIZONTAL_SPACING

\* The tree with a leaf first, then a branch of one leaf, then a branch of
\* three has been laid out: its fifth leaf is in the fifth slot of the third
\* column.
C27_Witness ==
  /\ lastOp.op = "layoutTree"
  /\ root = RepeatedIdTree
  /\ lastOp.result.children[3].children[3].y = 4 * VERTICAL_SPACING * SubPixels
  /\ lastOp.result.children[3].children[3].x = 2 * HORIZONTAL_SPACING
  /\ lastOp.result.children[1].y = 0

Touched(before, after) ==
  IF lastOp'.op = "addNodeToTree" /\ Len(after) = Len(before) + 1
  THEN CHOOSE k \in 1..Len(after) : \A j \in 1..Len(before) : before[j].id # after[k].id
  ELSE IF lastOp'.op = "deleteNodeFromTree" /\ Len(after) < Len(before)
  THEN CHOOSE k \in 1..Len(before) :
         /\ before[k].id = lastOp'.args[1]
         /\ \A j \in 1..(k - 1) : before[j].id # lastOp'.args[1]
  ELSE 0

\* C29: when addNodeToTree or deleteNodeFromTree turns tree T into T', the
\* nodes before the inserted or first removed node in depth-first order are
\* the same in both, and each of them that has no children in T and none in
\* T' has the same y in the layout of T' as in the layout of T.
C29_EarlierLeavesKeepTheirSlots ==
  [][lastOp'.op \in {"addNodeToTree", "deleteNodeFromTree"}
       => \A before \in {Placed(layoutTree(root), 0)} :
          \A after \in {Placed(layoutTree(root'), 0)} :
          \A touched \in {Touched(before, after)} :
          \A k \in 1..(touched - 1) :
            /\ after[k].id = before[k].id
            /\ (before[k].leaf /\ after[k].leaf) => after[k].y = before[k].y]_vars

\* A Chance node has been added under branch A of the scenario tree: the two
\* outcomes of A come before it and the outcome of B, now in the fourth slot,
\* after it.
C29_Witness ==
  /\ lastOp.op = "addNodeToTree"
  /\ lastOp.args = <<3, CHANCE>>
  /\ Stripped(deleteNodeFromTree(root, 10)) = ScenarioA
  /\ LET l == layoutTree(root)
     IN /\ l.children[1].children[2].y = VERTICAL_SPACING * SubPixels
        /\ l.children[1].children[3].data.id = 10
        /\ l.children[2].children[1].y = 3 * VERTICAL_SPACING * SubPixels

(* -------------------------------- C30 ---------------------------------- *)

RECURSIVE Skeleton(_)
\* The shape of a tree: its nodes with their children and with the same
\* id, type and label everywhere, and no value and no probability.
Skeleton(t) ==
  TreeNode(RootId, DECISION, "", Undefined, Undefined, Map(Skeleton, t.children))

RECURSIVE Coordinates(_)
\* The x and y of the nodes of a layout in depth-first order.
Coordinates(l) ==
  <<[x |-> l.x, y |-> l.y]>> \o SeqConcat(Map(Coordinates, l.children))

\* C30: the coordinates of a layout are those of the layout of the bare shape
\* of the tree, so trees of one shape get the same coordinates node for node;
\* and an update of a label, value or probability, a step, an automatic
\* evaluation (started, resumed or cancelled) and a reset keep the shape, and
\* with it the x and y of every node.
C30_LayoutFromShapeOnly ==
  [][\A before \in {Coordinates(layoutTree(root))} :
     \A after \in {Coordinates(layoutTree(root'))} :
       /\ after = Coordinates(layoutTree(Skeleton(root')))
       /\ lastOp'.op \in {"update", "step", "auto", "resume", "cancelled", "reset"}
            => Skeleton(root') = Skeleton(root) /\ after = before]_vars

\* An automatic evaluation has finished on the initial tree: every node has
\* its value, the best branch is flagged, and the root is where it was, at
\* 250 pixels in the first column.
C30_Witness ==
  /\ lastOp.op = "resume"
  /\ calculationMode = "auto"
  /\ Skeleton(root) = Skeleton(createInitialTree)
  /\ \A n \in Subtree(root) : IsDefined(n.calculatedValue)
  /\ root.children[1].isOptimal = <<TRUE>>
  /\ layoutTree(root).y = 250 * SubPixels
  /\ layoutTree(root).children[3].children[2].y = 5 * VERTICAL_SPACING * SubPixels

(* ------------------------------ AI panel: claims ----------------------- *)

\* The request whose analyzeTree call ended in this step.
Ended(before, after) == CHOOSE requestId \in before : requestId \notin after

Completion == lastOp'.op \in {"analysis returned", "analysis failed"}

\* C33: when analysis requests overlap only the most recently started one
\* writes its outcome: the completion, by result or by failure, of a request
\* that is no longer the latest changes neither the displayed analysis nor the
\* settings panel nor the analysing flag and shows no alert; the completion of
\* the latest request leaves the analysing flag false; and the flag is true
\* exactly while the latest request is pending.
C33_OnlyLatestAnalysisWrites ==
  [][/\ Completion =>
          \A requestId \in {Ended(analyses, analyses')} :
            IF requestId # analysisRequestId
            THEN UNCHANGED <<aiAnalysis, showAiSettings, isAnalyzing, alerts>>
            ELSE isAnalyzing' = FALSE
     /\ isAnalyzing' = (analysisRequestId' \in analyses')]_vars

\* The first request has just failed or returned while the second one, started
\* after it, is still pending.
C33_Witness ==
  /\ lastOp.op \in {"analysis returned", "analysis failed"}
  /\ analysisRequestId = 2
  /\ analyses = {2}
  /\ isAnalyzing
  /\ alerts = <<>> /\ aiAnalysis = Undefined

(* -------------------------------- C36 ---------------------------------- *)

\* C36: whenever a replay is in flight and not cancelled, abortControllerRef
\* holds that replay's controller, so that the next reset, mutation or solve
\* aborts it; and a continuation of a replay whose controller is not the
\* stored one, returning because it was cancelled, leaves the stored
\* controller as it is.
C36_HandleCoversLiveReplay ==
  /\ [](\A k \in InFlight : replays[k].controller = abortControllerRef)
  /\ [][Resumed /\ Head(replays).controller # abortControllerRef
          => abortControllerRef' = abortControllerRef]_vars

\* A cancelled replay has just returned through its finally block while the
\* replay started after it is in flight under the stored controller.
C36_Witness ==
  /\ lastOp.op = "cancelled"
  /\ InFlight # {}
  /\ abortControllerRef # NoController
  /\ \A k \in InFlight : replays[k].controller = abortControllerRef

(* -------------------------------- C37 ---------------------------------- *)

\* The nodes of a layout in depth-first order, each with its depth, its y,
\* whether it has children, and the y of the first and of the last childless
\* node of its subtree.
RECURSIVE Spans(_, _)
Spans(l, depth) ==
  LET below == LET F(c) == Spans(c, depth + 1) IN Map(F, l.children)
      n == Len(below)
  IN <<[depth |-> depth, y |-> l.y, internal |-> l.children # <<>>,
        first |-> IF n = 0 THEN l.y ELSE below[1][1].first,
        last |-> IF n = 0 THEN l.y ELSE below[n][1].last]>>
       \o SeqConcat(below)

\* C37: in a layout two different nodes of one depth have different y, the
\* one that comes first in depth-first order the smaller, and every node with
\* children has its y between the y of the first and the y of the last
\* childless node of its subtree; so no two nodes share a point.
C37_NoTwoNodesAtOnePoint ==
  lastOp.op = "layoutTree"
    => \A spans \in {Spans(lastOp.result, 0)} :
         /\ \A j, k \in 1..Len(spans) :
              j < k /\ spans[j].depth = spans[k].depth => spans[j].y < spans[k].y
         /\ \A k \in 1..Len(spans) :
              spans[k].internal
                => spans[k].first <= spans[k].y /\ spans[k].y <= spans[k].last
         /\ \A j, k \in 1..Len(spans) :
              j # k => <<spans[j].depth, spans[j].y>> # <<spans[k].depth, spans[k].y>>

\* A tree has been laid out in which a node without children comes before a
\* branch of its own depth, higher up than the branch, and a parent of one
\* child stands at its child's y, one column to the left.
C37_Witness ==
  /\ lastOp.op = "layoutTree"
  /\ \E spans \in {Spans(lastOp.result, 0)} :
       /\ \E j, k \in 1..Len(spans) :
            /\ j < k
            /\ spans[j].depth = spans[k].depth
            /\ ~spans[j].internal /\ spans[k].internal
            /\ spans[j].y < spans[k].y
       /\ \E k \in 1..Len(spans) :
            /\ spans[k].internal
            /\ spans[k].first = spans[k].last
            /\ spans[k].y = spans[k + 1].y
            /\ spans[k].depth + 1 = spans[k + 1].depth

(* -------------------------------- C34 ---------------------------------- *)

\* The non-terminal nodes of the tree that carry a calculatedValue.
EvaluatedNonTerminals == {n \in Subtree(root) : n.type # TERMINAL /\ HasValue(n)}

\* C34: in every state the nodes with a log entry are exactly the
\* non-terminal nodes with a calculatedValue in the tree, one entry each, and
\* each entry's result is that node's calculatedValue; in Edit the log is
\* empty and no node has a calculatedValue or an isOptimal.
C34_LogMatchesTree ==
  /\ {logs[k].node : k \in 1..Len(logs)} = {n.id : n \in EvaluatedNonTerminals}
  /\ Len(logs) = Cardinality(EvaluatedNonTerminals)
  /\ \A k \in 1..Len(logs) : \A n \in EvaluatedNonTerminals :
       n.id = logs[k].node => n.calculatedValue[1] = logs[k].result
  /\ calculationMode = "edit" => logs = <<>> /\ NoDerived(root)

\* The log and the tree agree on which nodes are evaluated, and on every
\* result but a NaN the tree has since lost to null or still holds.
C34_LogMatchesTreeButForNaN ==
  /\ {logs[k].node : k \in 1..Len(logs)} = {n.id : n \in EvaluatedNonTerminals}
  /\ Len(logs) = Cardinality(EvaluatedNonTerminals)
  /\ \A k \in 1..Len(logs) : \A n \in EvaluatedNonTerminals :
       n.id = logs[k].node
         => \/ n.calculatedValue[1] = logs[k].result
            \/ logs[k].result = NaN /\ n.calculatedValue[1] = Null
  /\ calculationMode = "edit" => logs = <<>> /\ NoDerived(root)

(* -------------------------------- C35 ---------------------------------- *)

\* No payout and no probability of t is NaN.
AllNumbers(t) == \A n \in Subtree(t) : n.value # <<NaN>> /\ n.probability # <<NaN>>

\* C35: for the tree of any Edit state, manual steps repeated until Solved
\* and one auto solve left to run until Solved give every node the same
\* calculatedValue and isOptimal, and write the same log entries in the same
\* order.
C35_StepAndAutoAgree ==
  calculationMode = "edit"
    => /\ Results(stepToEnd(root)) = Results(replayToEnd(root, "edit"))
       /\ stepLogsToEnd(root) = replayLogsToEnd(root)

\* The same for the trees in which every payout and probability is a number.
C35_StepAndAutoAgreeOnNumbers ==
  calculationMode = "edit" /\ AllNumbers(root)
    => /\ Results(stepToEnd(root)) = Results(replayToEnd(root, "edit"))
       /\ stepLogsToEnd(root) = replayLogsToEnd(root)

(* -------------------------------- C32 ---------------------------------- *)

\* Every node of tree before that has a calculatedValue has the same one in
\* tree after.
KeepsValues(before, after) ==
  \A n \in Subtree(before) :
    HasValue(n) => Carrier(after, n.id).calculatedValue = n.calculatedValue

\* The ids of the non-terminal nodes of t without a calculatedValue, children
\* before parents.
Unevaluated(t) ==
  SelectSeq(PostOrder(<<t>>, 1),
            LAMBDA id : Carrier(t, id).type # "TERMINAL" /\ ~HasValue(Carrier(t, id)))

\* A replay started in Stepping has just run to its end.
ResumedReplayCompleted ==
  /\ lastOp \in {Op("resume", "step"), Op("auto", "step")}
  /\ calculationMode = "auto"
  /\ LoggedIds = NonTerminalPostOrder

\* C32: an auto solve invoked in Stepping, after manual steps or over a
\* replay in flight, leaves the log and every calculatedValue of the tree as
\* they are; each evaluation of the replay it starts appends one log entry,
\* for the first non-terminal node in post-order that had no calculatedValue,
\* and leaves every calculatedValue present as it was; and when every pacing
\* delay eventually elapses the replay is cancelled or ends in Solved with one
\* log entry per non-terminal node.
C32_AutoInSteppingResumes ==
  /\ [][(lastOp' = Op("auto", "step"))
          => logs' = logs /\ KeepsValues(root, root')]_vars
  /\ [][(lastOp' = Op("resume", "step"))
          => \A todo \in {Unevaluated(root)} :
               /\ todo # <<>>
               /\ Len(logs') = Len(logs) + 1
               /\ SubSeq(logs', 1, Len(logs)) = logs
               /\ logs'[Len(logs')].node = todo[1]
               /\ Unevaluated(root') = Tail(todo)
               /\ KeepsValues(root, root')]_vars
  /\ \A c \in Controllers :
       (lastOp = Op("auto", "step") /\ InFlightWith(c))
         ~> (ResumedReplayCompleted \/ CancelledWith(c))

\* Every node of tree before that has a calculatedValue has the same one in
\* tree after, or null where it had NaN.
KeepsValuesButNaN(before, after) ==
  \A n \in Subtree(before) :
    HasValue(n) => Carrier(after, n.id).calculatedValue
                     \in {n.calculatedValue, JsonNumber(n.calculatedValue)}

\* The same with a calculatedValue NaN allowed to come back as null.
C32_AutoInSteppingResumesButForNaN ==
  /\ [][(lastOp' = Op("auto", "step"))
          => logs' = logs /\ KeepsValuesButNaN(root, root')]_vars
  /\ [][(lastOp' = Op("resume", "step"))
          => \A todo \in {Unevaluated(root)} :
               /\ todo # <<>>
               /\ Len(logs') = Len(logs) + 1
               /\ SubSeq(logs', 1, Len(logs)) = logs
               /\ logs'[Len(logs')].node = todo[1]
               /\ Unevaluated(root') = Tail(todo)
               /\ KeepsValuesButNaN(root, root')]_vars
  /\ \A c \in Controllers :
       (lastOp = Op("auto", "step") /\ InFlightWith(c))
         ~> (ResumedReplayCompleted \/ CancelledWith(c))

====
